---- MODULE Spec2Model ----
(***************************************************************************)
(* MRATS: the meeting recorder (src/meeting_recorder.py) and its staged    *)
(* processing pipeline (src/processing_pipeline.py).                       *)
(*                                                                         *)
(* Threads: the capture subprocess (ffmpeg), the main/orchestrator thread  *)
(* (start_recording, stop_recording, drain, signal_handler), the Segment   *)
(* Monitor thread (_monitor_segments), the transcription worker            *)
(* (_tx_worker) and the summarization worker (_sum_worker).                *)
(*                                                                         *)
(* Text is a sequence of tokens (words, whitespace characters, tag         *)
(* markers).  Time is abstracted: a blocking call is one step that other   *)
(* threads may precede or follow.                                          *)
(***************************************************************************)
EXTENDS Integers, Sequences, FiniteSets, TLC

\* ------------------------------------------------------------------ bounds
\* Number of segment files the capture subprocess writes in a session.
MaxSegs == 2
\* Sessions recorded one after the other in one process.
MaxSessions == 2
\* Largest summary_batch_size a pipeline is constructed with.
MaxBatch == 2
\* segment_duration of the session, in seconds (scaled down from 300).
SegDur == 4
\* Session of many short segments: its segment count and segment_duration.
MaxSegsLong == 9
ShortSegDur == 1
\* Longest summarizer response, in tokens, of the response-parsing runs.
MaxRespLen == 4
\* Seconds of audio in each segment of the backend runs.
TxWavDur == 8

\* ------------------------------------------------------- program constants
\* _wait_for_stable_file: actual_duration >= expected_duration - 2.0
DurationTolerance == 2
\* _monitor_segments: _wait_for_stable_file(f, min_size=1024, ...)
MinSize == 1024
\* _wait_for_stable_file: time.sleep(0.2), so five polls per second; the
\* clock of a call counts these poll periods.
TicksPerSecond == 5
\* _monitor_segments: stable_time=1.0 and timeout = segment_duration + 10
StableTime == 1
GateSlack == 10
\* ProcessingPipeline.__init__: pad_silence_ms = 300, pre_roll_ms = 300
DefaultPadMs == 300
DefaultPreRollMs == 300
\* _build_context_wav: ctx_duration < (expected_duration_s - 2.0), in ms
CtxToleranceMs == 2000
\* ffmpeg -c:a pcm_s16le -ar 16000 -ac 1: bytes written per second of audio
BytesPerSecond == 32000
\* _transcribe_with_server: wav_duration_s - last_effective_s > 3.0
TruncationGap == 3

\* -------------------------------------------------------------------- text
\* Python's None, for rolling_summary_text before the first summary.
None == <<"None">>
NoPath == -1

WhiteSpace == {" ", "\n", "\t"}

RECURSIVE LStrip(_)
LStrip(s) ==
  IF s = <<>> THEN <<>>
  ELSE IF Head(s) \in WhiteSpace THEN LStrip(Tail(s)) ELSE s

RECURSIVE RStrip(_)
RStrip(s) ==
  IF s = <<>> THEN <<>>
  ELSE IF s[Len(s)] \in WhiteSpace THEN RStrip(SubSeq(s, 1, Len(s) - 1)) ELSE s

\* str.strip()
Strip(s) == RStrip(LStrip(s))

\* sep.join(parts)
RECURSIVE Join(_, _)
Join(sep, parts) ==
  IF parts = <<>> THEN <<>>
  ELSE IF Len(parts) = 1 THEN parts[1]
  ELSE parts[1] \o sep \o Join(sep, Tail(parts))

\* `x or y` on strings and None
Falsy(s) == s = <<>> \/ s = None
Or(a, b) == IF Falsy(a) THEN b ELSE a

\* The transcript the transcriber produces for segment i when it hears speech.
Words == <<"w0", "w1", "w2", "w3", "w4", "w5", "w6", "w7", "w8", "w9">>
Speech(i) == <<Words[(i % Len(Words)) + 1]>>

\* ------------------------------------------------------------ segment names
\* Width of the zero-padded index in the capture pattern "segment_%03d.wav".
PadWidth == 3
\* Base of the index numerals.  The program writes decimal; the model scales
\* the base down so that the first index wider than PadWidth digits
\* (Radix^PadWidth) is a reachable segment count.
Radix == 2

RECURSIVE Digits(_)
Digits(i) == IF i < Radix THEN <<i>> ELSE Digits(i \div Radix) \o <<i % Radix>>

RECURSIVE ZeroPad(_)
ZeroPad(d) == IF Len(d) >= PadWidth THEN d ELSE ZeroPad(<<0>> \o d)

\* "segment_%03d.wav" % i, from the first character that can differ: the
\* character codes of the padded index followed by the '.' of ".wav".
SegmentName(i) ==
  LET d == ZeroPad(Digits(i))
  IN  [k \in 1..(Len(d) + 1) |-> IF k <= Len(d) THEN 48 + d[k] ELSE 46]

\* Python's str ordering: code point by code point, a proper prefix first.
RECURSIVE LexLess(_, _)
LexLess(a, b) ==
  IF b = <<>> THEN FALSE
  ELSE IF a = <<>> THEN TRUE
  ELSE IF Head(a) # Head(b) THEN Head(a) < Head(b)
  ELSE LexLess(Tail(a), Tail(b))

RECURSIVE SortedByName(_)
SortedByName(S) ==
  IF S = {} THEN <<>>
  ELSE LET m == CHOOSE x \in S :
                  \A y \in S \ {x} : LexLess(SegmentName(x), SegmentName(y))
       IN  <<m>> \o SortedByName(S \ {m})

\* "segment_%03d_transcript.txt": the padded index followed by '_'.
TranscriptName(i) ==
  LET d == ZeroPad(Digits(i))
  IN  [k \in 1..(Len(d) + 1) |-> IF k <= Len(d) THEN 48 + d[k] ELSE 95]

RECURSIVE SortedTranscripts(_)
SortedTranscripts(S) ==
  IF S = {} THEN <<>>
  ELSE LET m == CHOOSE x \in S :
                  \A y \in S \ {x} : LexLess(TranscriptName(x), TranscriptName(y))
       IN  <<m>> \o SortedTranscripts(S \ {m})

\* --------------------------------------------------- summarizer responses
OpenTag(tag) ==
  IF tag = "ROLLING_SUMMARY"
  THEN {"<<ROLLING_SUMMARY>>", "<<rolling_summary>>"}
  ELSE {"<<SEGMENT_SUMMARY>>", "<<segment_summary>>"}

CloseTag(tag) ==
  IF tag = "ROLLING_SUMMARY"
  THEN {"<</ROLLING_SUMMARY>>", "<</rolling_summary>>"}
  ELSE {"<</SEGMENT_SUMMARY>>", "<</segment_summary>>"}

\* re.search(rf"<<{tag}>>\n?(.*?)\n?<</{tag}>>", text, DOTALL | IGNORECASE):
\* the leftmost opening tag that has a closing tag after it, up to the nearest
\* such closing tag; group(1).strip(), or "" when there is no match.
ExtractTag(text, tag) ==
  LET opens == {i \in 1..Len(text) :
                  /\ text[i] \in OpenTag(tag)
                  /\ \E j \in (i + 1)..Len(text) : text[j] \in CloseTag(tag)}
  IN  IF opens = {} THEN <<>>
      ELSE LET i == CHOOSE x \in opens : \A y \in opens : x <= y
               closes == {j \in (i + 1)..Len(text) : text[j] \in CloseTag(tag)}
               j == CHOOSE x \in closes : \A y \in closes : x <= y
           IN  Strip(SubSeq(text, i + 1, j - 1))

RespBoth ==
  << "<<ROLLING_SUMMARY>>", "\n", "R", "\n", "<</ROLLING_SUMMARY>>", "\n",
     "<<SEGMENT_SUMMARY>>", "\n", "S", "\n", "<</SEGMENT_SUMMARY>>", "\n" >>
RespPlain == <<"P">>
RespEmpty == <<>>

\* What the summarizer service may answer to one request.
Responses == {RespBoth, RespPlain, RespEmpty}

\* ------------------------------------------------------------------- state
VARIABLES
  \* MeetingRecorder
  automation_enabled,   \* constructor argument
  segment_duration,     \* constructor argument, seconds
  recording,            \* self.recording
  ffmpeg_process,       \* "none" (None), "alive", "dead" (terminated, reaped)
  mainPc,               \* position of the main thread
  current_session_dir,  \* number of the session whose directory it is, 0 if None
  metadataFile,         \* metadata.json of session k at [k]: "start" or "end"
  staleMon,             \* _monitor_segments threads of earlier sessions
  stableWait,           \* a _wait_for_stable_file call followed poll by poll
  ctxBuild,             \* a _build_context_wav call made by transcribe
  refineCall,           \* a _refine_transcript_with_json call
  metrics,              \* metrics_enabled and the lines sent to metrics.ndjson
  threads,              \* the worker threads of repeated start() and stop() calls
  \* the session directory
  segFiles,             \* segments/segment_NNN.wav: duration of file i at [i+1]
  sidecars,             \* segments/segment_NNN.json written by the monitor
  transcriptFiles,      \* transcription/segment_NNN_transcript.txt: seg -> text
  batchFiles,           \* summaries/batch_BBB_summary.md: batch index -> text
  segSummaryFiles,      \* summaries/segment_NNN_summary.md: set of seg
  rollingFile,          \* summaries/rolling_summary.md: content, None if absent
  finalSummaryFile,     \* summaries/final_summary.md: content, None if absent
  finalTranscriptFile,  \* transcription/final_transcript.txt, None if absent
  \* _monitor_segments
  monPc, monFiles, monCur, seen,
  \* ProcessingPipeline
  summary_batch_size, whisper_backend, pyw_model, running, tx_busy, sum_busy,
  transcribe_queue, summarize_queue,
  rolling_summary_text, batch_summaries, processed_tx,
  \* _tx_worker
  txPc, txJob,
  \* _sum_worker
  sumPc, batch, batch_metadata, batch_count,
  \* history (not program state): what happened so far
  enqLog,        \* segments put on the transcription queue, in order
  gatePassed,    \* paths for which _wait_for_stable_file returned True
  gateFailed,    \* paths for which it returned False
  txDequeued,    \* segments taken from the transcription queue, in order
  txReturned,    \* [seg, transcript] of each transcribe() that returned, in order
  txCalls,       \* transcribe() calls: [seg, configured, wav, env, res]
  sumEnqLog,     \* jobs put on the summarization queue, in order
  sumLog,        \* completed summarize() calls: [segs, text, request, ok, resp,
                 \* ret, before, after]
  pendingAtStop, \* segments on the summarization queue when stop was requested
  synthInput     \* segments covered by the batch summaries drain synthesized

recorderVars == <<automation_enabled, segment_duration, recording, ffmpeg_process, mainPc>>
diskVars == <<segFiles, sidecars, transcriptFiles, batchFiles, segSummaryFiles,
              rollingFile, finalSummaryFile, finalTranscriptFile>>
monVars == <<monPc, monFiles, monCur, seen>>
pipeVars == <<summary_batch_size, whisper_backend, pyw_model, running, tx_busy,
             sum_busy, transcribe_queue,
              summarize_queue, rolling_summary_text, batch_summaries,
              processed_tx>>
txVars == <<txPc, txJob>>
sumVars == <<sumPc, batch, batch_metadata, batch_count>>
histVars == <<enqLog, gatePassed, gateFailed, txDequeued, txReturned, txCalls,
              sumEnqLog,
              sumLog, pendingAtStop, synthInput>>
sessVars == <<current_session_dir, metadataFile, staleMon>>
\* Calls followed step by step, with their local variables.
callVars == <<stableWait, ctxBuild, refineCall, metrics, threads>>
vars == <<recorderVars, sessVars, callVars, diskVars, monVars, pipeVars, txVars, sumVars, histVars>>

\* No time read, as in `stable_since = None`.
NoTime == -1

\* No _wait_for_stable_file call is being followed.
NoWait ==
  [pc |-> "idle", is_segment_file |-> FALSE, now |-> 0, last_size |-> -1,
   stable_since |-> NoTime, lastPoll |-> 0, seenSize |-> -1, run |-> 0,
   since |-> 0, probe |-> "none"]

\* No value, as in a call that has not returned.
NoRet == <<"NoRet">>

\* No _build_context_wav call is being followed.
NoBuild == [pc |-> "idle", env |-> NoRet, files |-> {}, ret |-> NoRet]

\* No _refine_transcript_with_json call is being followed.
NoRefine == [pc |-> "idle", args |-> NoRet, ret |-> NoRet]

\* The threads of the session under way are followed in txPc and sumPc.
NoThreads == [host |-> "idle", tx |-> <<>>, sum |-> <<>>]

\* self.metrics_enabled = False: no metrics line is ever written.
NoMetrics == [enabled |-> FALSE, log |-> <<>>]

CallsIdle ==
  /\ stableWait = NoWait
  /\ ctxBuild = NoBuild
  /\ refineCall = NoRefine
  /\ metrics = NoMetrics
  /\ threads = NoThreads

\* MeetingRecorder.__init__ and ProcessingPipeline.__init__
InitConfigured(automation, durations, batchSizes, backends) ==
  /\ automation_enabled \in automation
  /\ segment_duration \in durations
  /\ recording = FALSE
  /\ ffmpeg_process = "none"
  /\ mainPc = "init"
  /\ current_session_dir = 0
  /\ metadataFile = <<>>
  /\ staleMon = <<>>
  /\ CallsIdle
  /\ segFiles = <<>>
  /\ sidecars = {}
  /\ transcriptFiles = <<>>
  /\ batchFiles = <<>>
  /\ segSummaryFiles = {}
  /\ rollingFile = None
  /\ finalSummaryFile = None
  /\ finalTranscriptFile = None
  /\ monPc = "off"
  /\ monFiles = <<>>
  /\ monCur = NoPath
  /\ seen = {}
  /\ summary_batch_size \in batchSizes
  /\ whisper_backend \in backends
  /\ pyw_model = FALSE
  /\ running = FALSE
  /\ tx_busy = FALSE
  /\ sum_busy = FALSE
  /\ transcribe_queue = <<>>
  /\ summarize_queue = <<>>
  /\ rolling_summary_text = None
  /\ batch_summaries = <<>>
  /\ processed_tx = 0
  /\ txPc = "off"
  /\ txJob = NoPath
  /\ sumPc = "off"
  /\ batch = <<>>
  /\ batch_metadata = <<>>
  /\ batch_count = 0
  /\ enqLog = <<>>
  /\ gatePassed = {}
  /\ gateFailed = {}
  /\ txDequeued = <<>>
  /\ txReturned = <<>>
  /\ txCalls = <<>>
  /\ sumEnqLog = <<>>
  /\ sumLog = <<>>
  /\ pendingAtStop = {}
  /\ synthInput = {}

\* whisper_backend is "cli" unless configured otherwise.
InitWith(automation, durations, batchSizes) ==
  InitConfigured(automation, durations, batchSizes, {"cli"})

Init == InitWith(BOOLEAN, {SegDur}, 1..MaxBatch)

\* The process is alive: daemon threads run until the interpreter exits.
Alive == mainPc # "exited"

\* ------------------------------------------------------ capture subprocess
NumFiles == Len(segFiles)
LastFile == NumFiles - 1
Duration(i) == segFiles[i + 1]
FileSize(i) == Duration(i) * BytesPerSecond
\* The writer has finished with file i: it moved on, reached the segment
\* length, or was terminated.
FileClosed(i) ==
  \/ i < LastFile
  \/ Duration(i) = segment_duration
  \/ ffmpeg_process # "alive"

\* ffmpeg appends one second of audio to the current segment file.
CaptureWrite ==
  /\ ffmpeg_process = "alive"
  /\ NumFiles > 0
  /\ Duration(LastFile) < segment_duration
  /\ segFiles' = [segFiles EXCEPT ![NumFiles] = @ + 1]
  /\ UNCHANGED <<sidecars, transcriptFiles, batchFiles, segSummaryFiles,
                 rollingFile, finalSummaryFile, finalTranscriptFile>>
  /\ UNCHANGED <<recorderVars, sessVars, callVars, monVars, pipeVars, txVars, sumVars, histVars>>

\* ffmpeg -f segment -segment_time: the current file is full, the next opens.
CaptureRotateUpTo(maxSegs) ==
  /\ ffmpeg_process = "alive"
  /\ NumFiles > 0
  /\ NumFiles < maxSegs
  /\ Duration(LastFile) = segment_duration
  /\ segFiles' = Append(segFiles, 0)
  /\ UNCHANGED <<sidecars, transcriptFiles, batchFiles, segSummaryFiles,
                 rollingFile, finalSummaryFile, finalTranscriptFile>>
  /\ UNCHANGED <<recorderVars, sessVars, callVars, monVars, pipeVars, txVars, sumVars, histVars>>

CaptureRotate == CaptureRotateUpTo(MaxSegs)

\* -------------------------------------------------------------- main thread
\* The _monitor_segments thread of the session that ends, as a later session
\* sees it: still inside its `while self.recording` loop, or returned.
Stale(pc) == IF pc = "exit" THEN "exit" ELSE "loop"

\* start_recording up to the Popen call: _init_session_directories makes a new
\* session directory (the files below are those of the current session
\* directory), current_session_dir and session_metadata_path are set and
\* _write_session_metadata writes metadata.json.
NewSessionDir(segs) ==
  /\ Len(metadataFile) < MaxSessions
  /\ current_session_dir' = Len(metadataFile) + 1
  /\ metadataFile' = Append(metadataFile, "start")
  /\ segFiles' = segs
  /\ sidecars' = {}
  /\ transcriptFiles' = <<>>
  /\ batchFiles' = <<>>
  /\ segSummaryFiles' = {}
  /\ rollingFile' = None
  /\ finalSummaryFile' = None
  /\ finalTranscriptFile' = None

\* MeetingRecorder.start_recording with ProcessingPipeline.start, called at a
\* position in `from` with no subprocess object held: the capture subprocess
\* opens segment_000.wav, a new monitor thread starts and, with automation and
\* a pipeline not yet running, so do the two workers (_sum_worker resets
\* _batch_summaries).
StartSession(from) ==
  /\ mainPc \in from
  /\ ffmpeg_process = "none"
  /\ NewSessionDir(<<0>>)
  /\ ffmpeg_process' = "alive"
  /\ recording' = TRUE
  /\ staleMon' = IF monPc = "off" THEN staleMon
                                  ELSE Append(staleMon, Stale(monPc))
  /\ monPc' = "poll"
  /\ monFiles' = <<>>
  /\ monCur' = NoPath
  /\ seen' = {}
  /\ mainPc' = "recording"
  /\ IF automation_enabled /\ ~running
     THEN /\ running' = TRUE
          /\ txPc' = "get"
          /\ sumPc' = "poll"
          /\ batch_summaries' = <<>>
     ELSE UNCHANGED <<running, txPc, sumPc, batch_summaries>>
  /\ UNCHANGED callVars
  /\ UNCHANGED <<automation_enabled, segment_duration>>
  /\ UNCHANGED <<summary_batch_size, whisper_backend, pyw_model, tx_busy, sum_busy, transcribe_queue,
                 summarize_queue, rolling_summary_text, processed_tx>>
  /\ UNCHANGED <<txJob, batch, batch_metadata, batch_count, histVars>>

\* The first start_recording of the process.
StartRecording == StartSession({"init"})

QueuedSegs(q) == {q[k].seg : k \in 1..Len(q)}

\* MeetingRecorder.stop_recording up to the drain call (interactive "stop" or
\* signal_handler): terminate the capture subprocess, recording = False.
StopRecording ==
  /\ mainPc \in {"recording", "failed"}
  /\ ffmpeg_process # "none"
  /\ ffmpeg_process' = "none"
  /\ recording' = FALSE
  /\ metadataFile' = [metadataFile EXCEPT ![current_session_dir] = "end"]
  /\ mainPc' = IF automation_enabled THEN "drain_idle" ELSE "final_copy"
  /\ pendingAtStop' = QueuedSegs(summarize_queue)
  /\ UNCHANGED <<current_session_dir, staleMon>>
  /\ UNCHANGED callVars
  /\ UNCHANGED <<automation_enabled, segment_duration>>
  /\ UNCHANGED <<txCalls, enqLog, gatePassed, gateFailed, txDequeued, txReturned,
                 sumEnqLog, sumLog, synthInput>>
  /\ UNCHANGED <<diskVars, monVars, pipeVars, txVars, sumVars>>

\* ProcessingPipeline.is_idle
is_idle == (~tx_busy) /\ (~sum_busy)

MainGoto(pc) ==
  /\ mainPc' = pc
  /\ UNCHANGED <<sessVars, callVars>>
  /\ UNCHANGED <<automation_enabled, segment_duration, recording, ffmpeg_process>>
  /\ UNCHANGED <<diskVars, monVars, pipeVars, txVars, sumVars, histVars>>

\* drain: `while self.running and (not self.is_idle() or ...)`, first operand
\* of the `or`.  A busy worker keeps the loop sleeping (no step).
DrainCheckIdle ==
  /\ mainPc = "drain_idle"
  /\ \/ ~running /\ MainGoto("final_transcript")
     \/ running /\ is_idle /\ MainGoto("drain_tx")

\* drain: `not self.transcribe_queue.empty()`
DrainCheckTxQueue ==
  /\ mainPc = "drain_tx"
  /\ IF transcribe_queue = <<>> THEN MainGoto("drain_sum")
                                ELSE MainGoto("drain_idle")

\* drain: `not self.summarize_queue.empty()`; all three false ends the loop.
DrainCheckSumQueue ==
  /\ mainPc = "drain_sum"
  /\ IF summarize_queue = <<>> THEN MainGoto("final_transcript")
                               ELSE MainGoto("drain_idle")

\* The set of keys of a file map, and the map extended by one file.
Keys(f) == DOMAIN f
Put(f, k, v) == [x \in (DOMAIN f) \cup {k} |-> IF x = k THEN v ELSE f[x]]

\* A generate_final_transcript that writes nothing when the directory holds no
\* per-segment transcript.
generate_final_transcript_OnlyIfAny ==
  IF Keys(transcriptFiles) = {}
  THEN None
  ELSE Join(<<"\n", "\n">>,
            [k \in 1..Cardinality(Keys(transcriptFiles)) |->
               Strip(transcriptFiles[SortedTranscripts(Keys(transcriptFiles))[k]])])
       \o <<"\n">>

\* The files of the transcription directory whose name ends in
\* '_transcript.txt', read and stripped, in sorted(os.listdir()) order:
\* final_transcript.txt, when it is there, before the segment_NNN_ files.
TranscriptInputs ==
  (IF finalTranscriptFile # None THEN <<Strip(finalTranscriptFile)>> ELSE <<>>)
  \o [k \in 1..Cardinality(Keys(transcriptFiles)) |->
        Strip(transcriptFiles[SortedTranscripts(Keys(transcriptFiles))[k]])]

\* generate_final_transcript: the transcripts in sorted directory order,
\* joined by blank lines.
generate_final_transcript == Join(<<"\n", "\n">>, TranscriptInputs) \o <<"\n">>

DrainFinalTranscript ==
  /\ mainPc = "final_transcript"
  /\ finalTranscriptFile' = generate_final_transcript
  /\ mainPc' = "final_synth"
  /\ UNCHANGED <<sessVars, callVars>>
  /\ UNCHANGED <<automation_enabled, segment_duration, recording, ffmpeg_process>>
  /\ UNCHANGED <<segFiles, sidecars, transcriptFiles, batchFiles,
                 segSummaryFiles, rollingFile, finalSummaryFile>>
  /\ UNCHANGED <<monVars, pipeVars, txVars, sumVars, histVars>>

\* What a request to the summarizer service may end in.
SummarizerOutcomes ==
  {[ok |-> FALSE, resp |-> <<>>]} \cup {[ok |-> TRUE, resp |-> r] : r \in Responses}

SegsOf(log, n) == UNION {{log[k].segs[m] : m \in 1..Len(log[k].segs)} : k \in 1..n}

\* drain: `if self._batch_summaries:` and, in _synthesize_final_summary, the
\* join of the batch summaries and the request to the summarizer going out.
DrainFinalSynthCheck ==
  /\ mainPc = "final_synth"
  /\ IF batch_summaries # <<>>
     THEN /\ synthInput' = SegsOf(sumLog, Len(batch_summaries))
          /\ mainPc' = "synth_wait"
     ELSE /\ UNCHANGED synthInput
          /\ mainPc' = "final_copy"
  /\ UNCHANGED <<sessVars, callVars>>
  /\ UNCHANGED <<automation_enabled, segment_duration, recording, ffmpeg_process>>
  /\ UNCHANGED <<txCalls, enqLog, gatePassed, gateFailed, txDequeued, txReturned,
                 sumEnqLog, sumLog, pendingAtStop>>
  /\ UNCHANGED <<diskVars, monVars, pipeVars, txVars, sumVars>>

\* _synthesize_final_summary: the summarizer answers (final_summary.md is
\* written) or the request fails (logged).
DrainFinalSynthWith(outcomes) ==
  /\ mainPc = "synth_wait"
  /\ mainPc' = "final_copy"
  /\ \E o \in outcomes :
       finalSummaryFile' =
         IF o.ok THEN Strip(o.resp) \o <<"\n">> ELSE finalSummaryFile
  /\ UNCHANGED <<sessVars, callVars>>
  /\ UNCHANGED <<automation_enabled, segment_duration, recording, ffmpeg_process>>
  /\ UNCHANGED <<segFiles, sidecars, transcriptFiles, batchFiles,
                 segSummaryFiles, rollingFile, finalTranscriptFile>>
  /\ UNCHANGED <<monVars, pipeVars, txVars, sumVars, histVars>>

DrainFinalSynth == DrainFinalSynthWith(SummarizerOutcomes)

\* stop_recording after drain: copy rolling_summary.md to final_summary.md if
\* it exists; recording_started, current_session_dir and session_metadata_path
\* are reset to None; then stop_recording returns.
StopFinalCopy ==
  /\ mainPc = "final_copy"
  /\ mainPc' = "stopped"
  /\ finalSummaryFile' = IF rollingFile # None THEN rollingFile ELSE finalSummaryFile
  /\ current_session_dir' = 0
  /\ UNCHANGED <<metadataFile, staleMon>>
  /\ UNCHANGED callVars
  /\ UNCHANGED <<automation_enabled, segment_duration, recording, ffmpeg_process>>
  /\ UNCHANGED <<segFiles, sidecars, transcriptFiles, batchFiles,
                 segSummaryFiles, rollingFile, finalTranscriptFile>>
  /\ UNCHANGED <<monVars, pipeVars, txVars, sumVars, histVars>>

\* signal_handler's sys.exit(0) after stop_recording returned, or "quit": the
\* interpreter exits and every daemon thread ends where it is.
Exit ==
  /\ mainPc = "stopped"
  /\ MainGoto("exited")

\* ProcessingPipeline.stop, by a host that shuts the pipeline down after the
\* session (the recorder itself never calls it).
PipelineStop ==
  /\ mainPc = "stopped"
  /\ running
  /\ running' = FALSE
  /\ UNCHANGED <<summary_batch_size, whisper_backend, pyw_model, tx_busy, sum_busy, transcribe_queue,
                 summarize_queue, rolling_summary_text, batch_summaries,
                 processed_tx>>
  /\ UNCHANGED <<recorderVars, sessVars, callVars, diskVars, monVars, txVars, sumVars, histVars>>

\* ---------------------------------------------------------- Segment Monitor
\* sorted(glob.glob(pattern)): the segment files on disk, in name order
SortedGlob == SortedByName(0..(NumFiles - 1))

MonGoto(pc) ==
  /\ monPc' = pc
  /\ UNCHANGED <<recorderVars, sessVars, callVars, diskVars, pipeVars, txVars, sumVars, histVars>>

\* _monitor_segments: `while self.recording:` then the glob; the thread ends
\* when recording is False.
MonitorPoll ==
  /\ Alive
  /\ monPc = "poll"
  /\ IF recording
     THEN /\ monFiles' = SortedGlob
          /\ MonGoto("iter")
     ELSE /\ monFiles' = monFiles
          /\ MonGoto("exit")
  /\ UNCHANGED <<monCur, seen>>

Unseen == {k \in 1..Len(monFiles) : monFiles[k] \notin seen}

\* _monitor_segments: `for f in files: if f not in seen and os.path.exists(f)`:
\* the next new file is logged and gets its metadata sidecar; with automation
\* it goes to the stable-file gate.  After the last file: time.sleep(2).
MonitorIter ==
  /\ Alive
  /\ monPc = "iter"
  /\ IF Unseen = {}
     THEN /\ monPc' = "poll"
          /\ UNCHANGED <<monCur, seen, sidecars>>
     ELSE LET k == CHOOSE x \in Unseen : \A y \in Unseen : x <= y
              f == monFiles[k]
          IN  /\ seen' = seen \cup {f}
              /\ sidecars' = sidecars \cup {f}
              /\ monCur' = f
              /\ monPc' = IF automation_enabled THEN "gate" ELSE "iter"
  /\ UNCHANGED monFiles
  /\ UNCHANGED <<segFiles, transcriptFiles, batchFiles, segSummaryFiles,
                 rollingFile, finalSummaryFile, finalTranscriptFile>>
  /\ UNCHANGED <<recorderVars, sessVars, callVars, pipeVars, txVars, sumVars, histVars>>

\* _wait_for_stable_file(f, min_size=1024, stable_time=1.0,
\* timeout=segment_duration + 10) on a segment file.  The size is stable once
\* the writer has finished with the file.  probeOk: ffprobe exited 0.
StableAndComplete(f, probeOk) ==
  /\ FileSize(f) >= MinSize
  /\ FileClosed(f)
  /\ segment_duration # 0
  /\ \/ ~probeOk
     \/ Duration(f) >= segment_duration - DurationTolerance

\* The gate returns True.
MonitorGatePass ==
  /\ Alive
  /\ monPc = "gate"
  /\ \E probeOk \in BOOLEAN : StableAndComplete(monCur, probeOk)
  /\ monPc' = "enqueue"
  /\ gatePassed' = gatePassed \cup {monCur}
  /\ UNCHANGED <<monFiles, monCur, seen>>
  /\ UNCHANGED <<txCalls, enqLog, gateFailed, txDequeued, txReturned, sumEnqLog, sumLog,
                 pendingAtStop, synthInput>>
  /\ UNCHANGED <<recorderVars, sessVars, callVars, diskVars, pipeVars, txVars, sumVars>>

\* A monitor that puts the segment on the queue although the gate timed out.
MonitorGateTimeout_Enqueues ==
  /\ Alive
  /\ monPc = "gate"
  /\ FileClosed(monCur)
  /\ ~StableAndComplete(monCur, TRUE)
  /\ monPc' = "enqueue"
  /\ gateFailed' = gateFailed \cup {monCur}
  /\ UNCHANGED <<monFiles, monCur, seen>>
  /\ UNCHANGED <<txCalls, enqLog, gatePassed, txDequeued, txReturned, sumEnqLog, sumLog,
                 pendingAtStop, synthInput>>
  /\ UNCHANGED <<recorderVars, sessVars, callVars, diskVars, pipeVars, txVars, sumVars>>

\* The gate returns False: the timeout passed on a file that is finished and
\* never passes while ffprobe succeeds.  The segment is skipped with a warning.
MonitorGateTimeout ==
  /\ Alive
  /\ monPc = "gate"
  /\ FileClosed(monCur)
  /\ ~StableAndComplete(monCur, TRUE)
  /\ monPc' = "iter"
  /\ gateFailed' = gateFailed \cup {monCur}
  /\ UNCHANGED <<monFiles, monCur, seen>>
  /\ UNCHANGED <<txCalls, enqLog, gatePassed, txDequeued, txReturned, sumEnqLog, sumLog,
                 pendingAtStop, synthInput>>
  /\ UNCHANGED <<recorderVars, sessVars, callVars, diskVars, pipeVars, txVars, sumVars>>

\* self.pipeline.enqueue_segment(f, metadata) -> enqueue_transcription
MonitorEnqueue ==
  /\ Alive
  /\ monPc = "enqueue"
  /\ transcribe_queue' = Append(transcribe_queue, monCur)
  /\ enqLog' = Append(enqLog, monCur)
  /\ monPc' = "iter"
  /\ UNCHANGED <<monFiles, monCur, seen>>
  /\ UNCHANGED <<summary_batch_size, whisper_backend, pyw_model, running, tx_busy, sum_busy,
                 summarize_queue, rolling_summary_text, batch_summaries,
                 processed_tx>>
  /\ UNCHANGED <<txCalls, gatePassed, gateFailed, txDequeued, txReturned, sumEnqLog,
                 sumLog, pendingAtStop, synthInput>>
  /\ UNCHANGED <<recorderVars, sessVars, callVars, diskVars, txVars, sumVars>>

\* ----------------------------------------------------- transcription worker
\* _tx_worker: self.transcribe_queue.get(timeout=1) returned a job.
TxGet ==
  /\ Alive
  /\ txPc = "get"
  /\ running
  /\ transcribe_queue # <<>>
  /\ txJob' = Head(transcribe_queue)
  /\ transcribe_queue' = Tail(transcribe_queue)
  /\ txDequeued' = Append(txDequeued, Head(transcribe_queue))
  /\ txPc' = "got"
  /\ UNCHANGED <<summary_batch_size, whisper_backend, pyw_model, running, tx_busy, sum_busy,
                 summarize_queue, rolling_summary_text, batch_summaries,
                 processed_tx>>
  /\ UNCHANGED <<txCalls, enqLog, gatePassed, gateFailed, txReturned, sumEnqLog, sumLog,
                 pendingAtStop, synthInput>>
  /\ UNCHANGED <<recorderVars, sessVars, callVars, diskVars, monVars, sumVars>>

\* _tx_worker: `while self.running` is false; the thread ends.
TxExit ==
  /\ Alive
  /\ txPc = "get"
  /\ ~running
  /\ txPc' = "done"
  /\ UNCHANGED txJob
  /\ UNCHANGED <<recorderVars, sessVars, callVars, diskVars, monVars, pipeVars, sumVars, histVars>>

\* _tx_worker: self._tx_busy = True
TxSetBusy ==
  /\ Alive
  /\ txPc = "got"
  /\ tx_busy' = TRUE
  /\ txPc' = "transcribe"
  /\ UNCHANGED txJob
  /\ UNCHANGED <<summary_batch_size, whisper_backend, pyw_model, running, sum_busy, transcribe_queue,
                 summarize_queue, rolling_summary_text, batch_summaries,
                 processed_tx>>
  /\ UNCHANGED <<recorderVars, sessVars, callVars, diskVars, monVars, sumVars, histVars>>

\* ------------------------------------------------------------ transcribe()
Backends == {"cli", "server", "pywhispercpp"}

Max(a, b) == IF a >= b THEN a ELSE b

\* What the full audio says when a first answer stopped short of it.
Longer(seg) == Speech(seg) \o <<"tail">>
\* Another transcript of the same length as Speech(seg).
Reworded(seg) == <<Words[((seg + 1) % Len(Words)) + 1]>>

\* What a transcribe() call meets outside the program.
\*   pyw       importing / constructing / running the in-process binding
\*   cli       the whisper-cli run: binary missing, non-zero exit, exit 0
\*             without a TXT file, exit 0 with one
\*   srv       the server's answer: none, HTTP error, {segments}, {text},
\*             another JSON object
\*   text      the text the transcriber produced
\*   covered   seconds of audio the answer covers (end of its last segment)
\*   prev_tail ctx_info["prev_tail_ms"] of _build_context_wav, in seconds
\*   retry     the answer to the second request
NoEnv ==
  [pyw |-> "ok", cli |-> "ok", srv |-> "text", text |-> <<>>, covered |-> 0,
   prev_tail |-> 0, retry |-> [ok |-> FALSE, text |-> <<>>]]

CliEnvs(seg) ==
  {[NoEnv EXCEPT !.cli = c] : c \in {"missing", "exit_nonzero", "no_txt"}}
  \cup {[NoEnv EXCEPT !.text = t] : t \in {<<"\n">>, Speech(seg)}}

PywEnvs(seg, loaded) ==
  (IF loaded THEN {}
   ELSE {[c EXCEPT !.pyw = p] :
           p \in {"import_fails", "init_fails"}, c \in CliEnvs(seg)})
  \cup {[NoEnv EXCEPT !.pyw = "raises"]}
  \cup {[NoEnv EXCEPT !.text = t] : t \in {<<>>, Speech(seg)}}

\* _build_context_wav: no pre-roll without a previous segment file, and none
\* when building the context WAV fails; otherwise pre_roll_ms (default 300 ms,
\* --pre-roll-ms), here a value below and one above the truncation threshold.
PreRolls == {1, TruncationGap + 1}
PrevTails(seg) == IF seg = 0 THEN {0} ELSE {0} \cup PreRolls

Covered(wav) == {wav - TruncationGap - 1, wav - TruncationGap, wav}

Retries(seg) ==
  {[ok |-> FALSE, text |-> <<>>]}
  \cup {[ok |-> TRUE, text |-> t] :
          t \in {<<>>, Speech(seg), Reworded(seg), Longer(seg)}}

ServerEnvs(seg, wav) ==
  {[NoEnv EXCEPT !.srv = s] : s \in {"unreachable", "http_error", "other"}}
  \cup {[NoEnv EXCEPT !.srv = s, !.text = t, !.covered = c, !.prev_tail = p,
                      !.retry = r] :
          s \in {"segments", "text"}, t \in {<<>>, Speech(seg)},
          c \in Covered(wav), p \in PrevTails(seg), r \in Retries(seg)}

TxEnvs(backend, loaded, seg, wav) ==
  IF backend = "pywhispercpp" THEN PywEnvs(seg, loaded)
  ELSE IF backend = "server" THEN ServerEnvs(seg, wav)
  ELSE CliEnvs(seg)

\* The end of a transcribe() call: whether it raised, the text it returned,
\* the content of segment_NNN_transcript.txt afterwards (None: no file), how
\* often it ran whisper-cli, how many requests it sent to the server, and
\* self.whisper_backend and self._pyw_model afterwards.
TxResult(raised, text, file, cli_runs, requests, backend, loaded) ==
  [raised |-> raised, text |-> text, file |-> file, cli_runs |-> cli_runs,
   requests |-> requests, backend |-> backend, loaded |-> loaded]

\* A _transcribe_with_cli that runs whisper-cli a second time after a
\* non-zero exit.
transcribe_with_cli_RetryOnce(e, backend, loaded) ==
  IF e.cli = "missing"
  THEN TxResult(TRUE, <<>>, None, 1, 0, backend, loaded)
  ELSE IF e.cli = "exit_nonzero"
  THEN TxResult(FALSE, <<>>, None, 2, 0, backend, loaded)
  ELSE IF e.cli = "no_txt"
  THEN TxResult(FALSE, <<>>, None, 1, 0, backend, loaded)
  ELSE IF Strip(e.text) = <<>>
  THEN TxResult(FALSE, <<>>, e.text, 1, 0, backend, loaded)
  ELSE TxResult(FALSE, e.text, e.text, 1, 0, backend, loaded)

\* _transcribe_with_cli: one subprocess.run(check=True).  A missing binary
\* raises out of the call; a non-zero exit returns ""; so does a run that left
\* no TXT file or a blank one.
transcribe_with_cli(e, backend, loaded) ==
  IF e.cli = "missing"
  THEN TxResult(TRUE, <<>>, None, 1, 0, backend, loaded)
  ELSE IF e.cli \in {"exit_nonzero", "no_txt"}
  THEN TxResult(FALSE, <<>>, None, 1, 0, backend, loaded)
  ELSE IF Strip(e.text) = <<>>
  THEN TxResult(FALSE, <<>>, e.text, 1, 0, backend, loaded)
  ELSE TxResult(FALSE, e.text, e.text, 1, 0, backend, loaded)

\* A _transcribe_with_server that measures a {text} answer by the audio it
\* covers.
transcribe_with_server_TextByCoverage(e, wav, backend, loaded) ==
  IF e.srv \in {"unreachable", "http_error"}
  THEN TxResult(FALSE, <<>>, None, 0, 1, backend, loaded)
  ELSE LET raw_txt == IF e.srv = "other" THEN <<>> ELSE Strip(e.text)
           last_effective_s == Max(0, e.covered - e.prev_tail)
           suspected_truncated ==
             /\ raw_txt # <<>>
             /\ wav # 0
             /\ last_effective_s # 0
             /\ wav - last_effective_s > TruncationGap
           retry_text == IF e.retry.ok THEN Strip(e.retry.text) ELSE <<>>
           final == IF /\ suspected_truncated
                       /\ retry_text # <<>>
                       /\ Len(retry_text) > Len(raw_txt)
                    THEN retry_text ELSE raw_txt
       IN  TxResult(FALSE, final, final, 0,
                    IF suspected_truncated THEN 2 ELSE 1, backend, loaded)

\* A _transcribe_with_server that goes to whisper-cli when the server cannot
\* be reached.
transcribe_with_server_CliFallback(e, wav, backend, loaded) ==
  IF e.srv = "unreachable"
  THEN transcribe_with_cli(e, backend, loaded)
  ELSE IF e.srv = "http_error"
  THEN TxResult(FALSE, <<>>, None, 0, 1, backend, loaded)
  ELSE LET raw_txt == IF e.srv = "other" THEN <<>> ELSE Strip(e.text)
           last_end_s == IF e.srv = "text" THEN wav ELSE e.covered
           last_effective_s == Max(0, last_end_s - e.prev_tail)
           suspected_truncated ==
             /\ raw_txt # <<>>
             /\ wav # 0
             /\ last_effective_s # 0
             /\ wav - last_effective_s > TruncationGap
           retry_text == IF e.retry.ok THEN Strip(e.retry.text) ELSE <<>>
           final == IF /\ suspected_truncated
                       /\ retry_text # <<>>
                       /\ Len(retry_text) > Len(raw_txt)
                    THEN retry_text ELSE raw_txt
       IN  TxResult(FALSE, final, final, 0,
                    IF suspected_truncated THEN 2 ELSE 1, backend, loaded)

\* A _transcribe_with_server that keeps a retry text of the same length.
transcribe_with_server_RetryNotShorter(e, wav, backend, loaded) ==
  IF e.srv \in {"unreachable", "http_error"}
  THEN TxResult(FALSE, <<>>, None, 0, 1, backend, loaded)
  ELSE LET raw_txt == IF e.srv = "other" THEN <<>> ELSE Strip(e.text)
           segments == raw_txt # <<>>
           last_end_s == IF e.srv = "text" THEN wav ELSE e.covered
           last_effective_s == Max(0, last_end_s - e.prev_tail)
           suspected_truncated ==
             /\ segments
             /\ wav # 0
             /\ last_effective_s # 0
             /\ wav - last_effective_s > TruncationGap
           retry_text == IF e.retry.ok THEN Strip(e.retry.text) ELSE <<>>
           final == IF /\ suspected_truncated
                       /\ retry_text # <<>>
                       /\ Len(retry_text) >= Len(raw_txt)
                    THEN retry_text ELSE raw_txt
       IN  TxResult(FALSE, final, final, 0,
                    IF suspected_truncated THEN 2 ELSE 1, backend, loaded)

\* _transcribe_with_server: one request; a request error returns "".  The
\* {text} shape is given one segment ending at the WAV duration.  The answer
\* is written to the transcript file.  With a last segment end (less the
\* pre-roll) more than 3 s short of the WAV duration, one more request is
\* sent and the longer text is kept and written.
transcribe_with_server(e, wav, backend, loaded) ==
  IF e.srv \in {"unreachable", "http_error"}
  THEN TxResult(FALSE, <<>>, None, 0, 1, backend, loaded)
  ELSE LET raw_txt == IF e.srv = "other" THEN <<>> ELSE Strip(e.text)
           segments == raw_txt # <<>>
           last_end_s == IF e.srv = "text" THEN wav ELSE e.covered
           last_effective_s == Max(0, last_end_s - e.prev_tail)
           suspected_truncated ==
             /\ segments
             /\ wav # 0
             /\ last_effective_s # 0
             /\ wav - last_effective_s > TruncationGap
           retry_text == IF e.retry.ok THEN Strip(e.retry.text) ELSE <<>>
           final == IF /\ suspected_truncated
                       /\ retry_text # <<>>
                       /\ Len(retry_text) > Len(raw_txt)
                    THEN retry_text ELSE raw_txt
       IN  TxResult(FALSE, final, final, 0,
                    IF suspected_truncated THEN 2 ELSE 1, backend, loaded)

\* transcribe(segment_path, metadata): backend selection.  A binding that
\* cannot be imported or constructed switches self.whisper_backend to "cli"
\* and the segment goes through _transcribe_with_cli.
transcribe(e, wav, backend, loaded) ==
  IF backend = "pywhispercpp"
  THEN IF ~loaded /\ e.pyw \in {"import_fails", "init_fails"}
       THEN transcribe_with_cli(e, "cli", FALSE)
       ELSE IF e.pyw = "raises"
       THEN TxResult(TRUE, <<>>, None, 0, 0, backend, TRUE)
       ELSE LET raw_txt == Strip(e.text)
            IN  TxResult(FALSE, raw_txt, raw_txt, 0, 0, backend, TRUE)
  ELSE IF backend = "server"
  THEN transcribe_with_server(e, wav, backend, loaded)
  ELSE transcribe_with_cli(e, backend, loaded)

\* What transcribe(segment_path, metadata) may end in, for the pipeline as it
\* is configured now.
TranscribeOutcomes(seg) ==
  {transcribe(e, segFiles[seg + 1], whisper_backend, pyw_model) :
     e \in TxEnvs(whisper_backend, pyw_model, seg, segFiles[seg + 1])}

SpeechOnly(seg) ==
  {TxResult(FALSE, Speech(seg), Speech(seg), 1, 0, whisper_backend, pyw_model)}

\* A hand-off that drops the jobs whose transcript is empty.
enqueue_summarization_SkipEmpty(seg, text) ==
  IF text = <<>>
  THEN UNCHANGED <<summarize_queue, sumEnqLog>>
  ELSE /\ summarize_queue' = Append(summarize_queue, [seg |-> seg, transcript |-> text])
       /\ sumEnqLog' = Append(sumEnqLog, [seg |-> seg, transcript |-> text])

\* enqueue_summarization(segment_path, transcript_text, metadata)
enqueue_summarization(seg, text) ==
  /\ summarize_queue' = Append(summarize_queue, [seg |-> seg, transcript |-> text])
  /\ sumEnqLog' = Append(sumEnqLog, [seg |-> seg, transcript |-> text])

\* A _write_metrics_line that lets the exception of a failed write out.
write_metrics_line_Propagates(stage, index, w) ==
  [raised |-> w = "fails",
   lines |-> IF w = "off" THEN <<>>
             ELSE <<[stage |-> stage, index |-> index, written |-> w = "written"]>>]

\* `if self.metrics_enabled: self._write_metrics_line({...})`: the line is
\* appended to metrics.ndjson, or the open or the write fails and the
\* exception is caught and printed.  "off": metrics are disabled, no call.
write_metrics_line(stage, index, w) ==
  [raised |-> FALSE,
   lines |-> IF w = "off" THEN <<>>
             ELSE <<[stage |-> stage, index |-> index, written |-> w = "written"]>>]

WriteOutcomes == IF metrics.enabled THEN {"written", "fails"} ELSE {"off"}

\* No call of _write_metrics_line.
NoLine == [raised |-> FALSE, lines |-> <<>>]

\* _tx_worker after transcribe() ended in o: the hand-off to the summarization
\* queue and the finally clause.  An exception is caught and logged: no
\* hand-off.
TxHandOff(o) ==
  /\ Alive
  /\ txPc \in {"transcribe", "writing"}
  /\ \E w1, w2 \in WriteOutcomes :
       LET ctx == write_metrics_line("context_build", txJob, w1)
           r == IF ctx.raised
                THEN [o EXCEPT !.raised = TRUE, !.text = <<>>, !.file = None]
                ELSE o
           tx == IF r.raised THEN NoLine
                 ELSE write_metrics_line("transcription", txJob, w2)
       IN  /\ IF r.raised \/ tx.raised
              THEN UNCHANGED <<summarize_queue, sumEnqLog, processed_tx, txReturned>>
              ELSE /\ enqueue_summarization(txJob, r.text)
                   /\ processed_tx' = processed_tx + 1
                   /\ txReturned' =
                        Append(txReturned, [seg |-> txJob, transcript |-> r.text])
           /\ transcriptFiles' = IF r.file # None
                                 THEN Put(transcriptFiles, txJob, r.file)
                                 ELSE transcriptFiles
           /\ metrics' = [metrics EXCEPT !.log = @ \o ctx.lines \o tx.lines]
  /\ whisper_backend' = o.backend
  /\ pyw_model' = o.loaded
  /\ tx_busy' = FALSE
  /\ txPc' = "get"
  /\ txJob' = NoPath
  /\ UNCHANGED <<summary_batch_size, running, sum_busy, transcribe_queue,
                 rolling_summary_text, batch_summaries>>
  /\ UNCHANGED <<segFiles, sidecars, batchFiles, segSummaryFiles, rollingFile,
                 finalSummaryFile, finalTranscriptFile>>
  /\ UNCHANGED <<enqLog, gatePassed, gateFailed, txDequeued, sumLog,
                 pendingAtStop, synthInput>>
  /\ UNCHANGED <<recorderVars, sessVars, stableWait, ctxBuild, refineCall, threads,
                 monVars, sumVars>>

\* _tx_worker: transcribe() and what follows it.
TxTranscribeWith(outcomes) ==
  /\ txPc = "transcribe"
  /\ \E o \in outcomes : TxHandOff(o)
  /\ UNCHANGED txCalls

TxTranscribe == TxTranscribeWith(TranscribeOutcomes(txJob))

\* ---------------------------------------------------- summarization worker
\* A summarize() whose failure path resets the rolling summary.
Summarize_FailureClearsRolling(segment_path, transcript, rolling, o) ==
  IF Strip(transcript) = <<>>
  THEN [ret |-> <<>>, rolling |-> rolling, request |-> FALSE, ok |-> FALSE,
        files |-> FALSE]
  ELSE IF ~o.ok
  THEN [ret |-> <<>>, rolling |-> <<>>, request |-> TRUE, ok |-> FALSE,
        files |-> FALSE]
  ELSE LET prev_roll == Or(rolling, <<>>)
           tag_roll == ExtractTag(o.resp, "ROLLING_SUMMARY")
           tag_seg == ExtractTag(o.resp, "SEGMENT_SUMMARY")
           updated_roll == IF Falsy(tag_roll) /\ ~Falsy(prev_roll)
                           THEN prev_roll ELSE tag_roll
           seg_summary == IF Falsy(tag_seg) THEN o.resp ELSE tag_seg
       IN  [ret |-> seg_summary,
            rolling |-> Or(updated_roll, Or(seg_summary, prev_roll)),
            request |-> TRUE,
            ok |-> TRUE,
            files |-> segment_path # NoPath]

\* A summarize() without the fallback to the previous rolling summary.
Summarize_NoPrevFallback(segment_path, transcript, rolling, o) ==
  IF Strip(transcript) = <<>>
  THEN [ret |-> <<>>, rolling |-> rolling, request |-> FALSE, ok |-> FALSE,
        files |-> FALSE]
  ELSE IF ~o.ok
  THEN [ret |-> <<>>, rolling |-> rolling, request |-> TRUE, ok |-> FALSE,
        files |-> FALSE]
  ELSE LET prev_roll == Or(rolling, <<>>)
           tag_roll == ExtractTag(o.resp, "ROLLING_SUMMARY")
           tag_seg == ExtractTag(o.resp, "SEGMENT_SUMMARY")
           seg_summary == IF Falsy(tag_seg) THEN o.resp ELSE tag_seg
       IN  [ret |-> seg_summary,
            rolling |-> Or(tag_roll, Or(seg_summary, prev_roll)),
            request |-> TRUE,
            ok |-> TRUE,
            files |-> segment_path # NoPath]

\* A summarize() that tests `not transcript` without the strip().
Summarize_NoStrip(segment_path, transcript, rolling, o) ==
  IF transcript = <<>>
  THEN [ret |-> <<>>, rolling |-> rolling, request |-> FALSE, ok |-> FALSE,
        files |-> FALSE]
  ELSE IF ~o.ok
  THEN [ret |-> <<>>, rolling |-> rolling, request |-> TRUE, ok |-> FALSE,
        files |-> FALSE]
  ELSE LET prev_roll == Or(rolling, <<>>)
           tag_roll == ExtractTag(o.resp, "ROLLING_SUMMARY")
           tag_seg == ExtractTag(o.resp, "SEGMENT_SUMMARY")
           updated_roll == IF Falsy(tag_roll) /\ ~Falsy(prev_roll)
                           THEN prev_roll ELSE tag_roll
           seg_summary == IF Falsy(tag_seg) THEN o.resp ELSE tag_seg
       IN  [ret |-> seg_summary,
            rolling |-> Or(updated_roll, Or(seg_summary, prev_roll)),
            request |-> TRUE,
            ok |-> TRUE,
            files |-> segment_path # NoPath]

\* summarize(segment_path, transcript, metadata) for one summarizer outcome o:
\* the text returned, the new rolling_summary_text, whether a request was sent
\* and whether the per-segment and rolling files are written.
Summarize(segment_path, transcript, rolling, o) ==
  IF Strip(transcript) = <<>>
  THEN [ret |-> <<>>, rolling |-> rolling, request |-> FALSE, ok |-> FALSE,
        files |-> FALSE]
  ELSE IF ~o.ok
  THEN [ret |-> <<>>, rolling |-> rolling, request |-> TRUE, ok |-> FALSE,
        files |-> FALSE]
  ELSE LET prev_roll == Or(rolling, <<>>)
           tag_roll == ExtractTag(o.resp, "ROLLING_SUMMARY")
           tag_seg == ExtractTag(o.resp, "SEGMENT_SUMMARY")
           updated_roll == IF Falsy(tag_roll) /\ ~Falsy(prev_roll)
                           THEN prev_roll ELSE tag_roll
           seg_summary == IF Falsy(tag_seg) THEN o.resp ELSE tag_seg
       IN  [ret |-> seg_summary,
            rolling |-> Or(updated_roll, Or(seg_summary, prev_roll)),
            request |-> TRUE,
            ok |-> TRUE,
            files |-> segment_path # NoPath]

\* _sum_worker: self.summarize_queue.get(timeout=1) returned a job; it joins
\* the batch, and a full batch goes to _process_summary_batch.
SumGet ==
  /\ Alive
  /\ sumPc = "poll"
  /\ summarize_queue # <<>>
  /\ summarize_queue' = Tail(summarize_queue)
  /\ batch' = Append(batch, Head(summarize_queue).transcript)
  /\ batch_metadata' = Append(batch_metadata, Head(summarize_queue).seg)
  /\ sumPc' = IF Len(batch) + 1 >= summary_batch_size THEN "process" ELSE "poll"
  /\ UNCHANGED batch_count
  /\ UNCHANGED <<summary_batch_size, whisper_backend, pyw_model, running, tx_busy, sum_busy,
                 transcribe_queue, rolling_summary_text, batch_summaries,
                 processed_tx>>
  /\ UNCHANGED <<recorderVars, sessVars, callVars, diskVars, monVars, txVars, histVars>>

\* _sum_worker: the queue is empty and the pipeline is not running: leftovers
\* are flushed (inside the loop after queue.Empty, or after the loop).
SumFlush ==
  /\ Alive
  /\ sumPc = "poll"
  /\ summarize_queue = <<>>
  /\ ~running
  /\ batch # <<>>
  /\ sumPc' = "flush"
  /\ UNCHANGED <<batch, batch_metadata, batch_count>>
  /\ UNCHANGED <<recorderVars, sessVars, callVars, diskVars, monVars, pipeVars, txVars, histVars>>

\* The worker holds a batch: it is in _process_summary_batch.
SumHolding == sumPc \in {"process", "flush", "process_wait", "flush_wait"}

\* _process_summary_batch -> summarize: the transcript is not blank, the
\* request to the summarizer goes out (requests.post, timeout=300).
SumSendRequest ==
  /\ Alive
  /\ sumPc \in {"process", "flush"}
  /\ Strip(Join(<<"\n", "\n">>, batch)) # <<>>
  /\ sumPc' = IF sumPc = "process" THEN "process_wait" ELSE "flush_wait"
  /\ UNCHANGED <<batch, batch_metadata, batch_count>>
  /\ UNCHANGED <<recorderVars, sessVars, callVars, diskVars, monVars, pipeVars, txVars, histVars>>

\* _process_summary_batch: summarize(None, batch_text, first_meta) returns
\* (blank transcript, or the request answered or failed), the batch summary
\* file, the append to _batch_summaries.
SumProcessWith(outcomes) ==
  /\ Alive
  /\ \/ sumPc \in {"process", "flush"} /\ Strip(Join(<<"\n", "\n">>, batch)) = <<>>
     \/ sumPc \in {"process_wait", "flush_wait"}
  /\ \E o \in outcomes :
       LET batch_text == Join(<<"\n", "\n">>, batch)
           r == Summarize(NoPath, batch_text, rolling_summary_text, o)
       IN  /\ rolling_summary_text' = r.rolling
           /\ IF r.files
              THEN /\ segSummaryFiles' = segSummaryFiles \cup {batch_metadata[1]}
                   /\ rollingFile' = Strip(Or(r.rolling, <<>>)) \o <<"\n">>
              ELSE UNCHANGED <<segSummaryFiles, rollingFile>>
           /\ batchFiles' = Put(batchFiles, batch_count, Strip(r.ret) \o <<"\n">>)
           /\ batch_summaries' = Append(batch_summaries, r.ret)
           /\ sumLog' = Append(sumLog, [segs |-> batch_metadata,
                                        text |-> batch_text,
                                        request |-> r.request,
                                        ok |-> r.ok,
                                        resp |-> o.resp,
                                        ret |-> r.ret,
                                        before |-> rolling_summary_text,
                                        after |-> r.rolling])
  /\ \E w \in WriteOutcomes :
       LET line == write_metrics_line("summarization_batch", batch_count, w)
       IN  /\ metrics' = [metrics EXCEPT !.log = @ \o line.lines]
           /\ sumPc' = IF line.raised THEN "dead" ELSE "poll"
  /\ batch' = <<>>
  /\ batch_metadata' = <<>>
  /\ batch_count' = IF sumPc \in {"process", "process_wait"}
                     THEN batch_count + 1 ELSE batch_count
  /\ UNCHANGED <<summary_batch_size, whisper_backend, pyw_model, running, tx_busy, sum_busy,
                 transcribe_queue, summarize_queue, processed_tx>>
  /\ UNCHANGED <<segFiles, sidecars, transcriptFiles, finalSummaryFile,
                 finalTranscriptFile>>
  /\ UNCHANGED <<txCalls, enqLog, gatePassed, gateFailed, txDequeued, txReturned,
                 sumEnqLog, pendingAtStop, synthInput>>
  /\ UNCHANGED <<recorderVars, sessVars, stableWait, ctxBuild, refineCall, threads,
                 monVars, txVars>>

SumProcess == SumProcessWith(SummarizerOutcomes)

\* _sum_worker: `while self.running or not self.summarize_queue.empty()` is
\* false and nothing is left to flush.
SumExit ==
  /\ Alive
  /\ sumPc = "poll"
  /\ ~running
  /\ summarize_queue = <<>>
  /\ batch = <<>>
  /\ sumPc' = "synth"
  /\ UNCHANGED <<batch, batch_metadata, batch_count>>
  /\ UNCHANGED <<recorderVars, sessVars, callVars, diskVars, monVars, pipeVars, txVars, histVars>>

\* _sum_worker: `if self._batch_summaries:` and the request of
\* _synthesize_final_summary going out; without summaries the thread ends.
SumSynthCheck ==
  /\ Alive
  /\ sumPc = "synth"
  /\ sumPc' = IF batch_summaries # <<>> THEN "synth_wait" ELSE "done"
  /\ UNCHANGED <<batch, batch_metadata, batch_count>>
  /\ UNCHANGED <<recorderVars, sessVars, callVars, diskVars, monVars, pipeVars, txVars, histVars>>

\* _sum_worker: _synthesize_final_summary's request is answered or fails.
SumFinalSynth ==
  /\ Alive
  /\ sumPc = "synth_wait"
  /\ sumPc' = "done"
  /\ \E o \in SummarizerOutcomes :
       finalSummaryFile' =
         IF o.ok THEN Strip(o.resp) \o <<"\n">> ELSE finalSummaryFile
  /\ UNCHANGED <<batch, batch_metadata, batch_count>>
  /\ UNCHANGED <<segFiles, sidecars, transcriptFiles, batchFiles,
                 segSummaryFiles, rollingFile, finalTranscriptFile>>
  /\ UNCHANGED <<recorderVars, sessVars, callVars, monVars, pipeVars, txVars, histVars>>

\* ----------------------------------------------------------- specification
Next ==
  \/ StartRecording
  \/ CaptureWrite
  \/ CaptureRotate
  \/ MonitorPoll
  \/ MonitorIter
  \/ MonitorGatePass
  \/ MonitorGateTimeout
  \/ MonitorEnqueue
  \/ TxGet
  \/ TxSetBusy
  \/ TxTranscribe
  \/ TxExit
  \/ SumGet
  \/ SumSendRequest
  \/ SumProcess
  \/ SumFlush
  \/ SumExit
  \/ SumSynthCheck
  \/ SumFinalSynth
  \/ StopRecording
  \/ DrainCheckIdle
  \/ DrainCheckTxQueue
  \/ DrainCheckSumQueue
  \/ DrainFinalTranscript
  \/ DrainFinalSynthCheck
  \/ DrainFinalSynth
  \/ StopFinalCopy
  \/ PipelineStop
  \/ Exit

Spec == Init /\ [][Next]_vars

\* A session of many short segments with automation, every transcription and
\* every summarization succeeding, recorded without a stop.
CaptureRotateLong == CaptureRotateUpTo(MaxSegsLong)
TxTranscribeSpeech == TxTranscribeWith(SpeechOnly(txJob))
SumProcessOk == SumProcessWith({[ok |-> TRUE, resp |-> RespBoth]})

InitLong == InitWith({TRUE}, {ShortSegDur}, {1})

NextLong ==
  \/ StartRecording
  \/ CaptureWrite
  \/ CaptureRotateLong
  \/ MonitorPoll
  \/ MonitorIter
  \/ MonitorGatePass
  \/ MonitorEnqueue
  \/ TxGet
  \/ TxSetBusy
  \/ TxTranscribeSpeech
  \/ SumGet
  \/ SumSendRequest
  \/ SumProcessOk

SpecLong == InitLong /\ [][NextLong]_vars

\* ===================================================================== claims
Range(q) == {q[k] : k \in 1..Len(q)}

\* Nothing is queued and neither worker holds a job.
Quiescent ==
  /\ transcribe_queue = <<>>
  /\ summarize_queue = <<>>
  /\ txPc \notin {"got", "transcribe"}
  /\ ~SumHolding
  /\ batch = <<>>

\* C1: when the wait loop of drain() ends in a running pipeline, both queues
\* are empty and neither worker is processing a job.
C1_DrainReturnsQuiescent ==
  [][(mainPc = "drain_sum" /\ mainPc' = "final_transcript" /\ running)
       => Quiescent']_vars

\* C2: once the final summary step of drain() is over, every segment that was
\* on the summarization queue when stop was requested is covered by a batch
\* summary that was part of the final summary's input.
C2_PendingJobsReachFinalSummary ==
  (automation_enabled /\ mainPc \in {"final_copy", "stopped", "exited"})
    => pendingAtStop \subseteq synthInput

\* C3: when stop_recording has returned with automation on, every segment file
\* the capture produced, the last and shorter one included, was put on the
\* transcription queue exactly once.
C3_EverySegmentEnqueuedOnce ==
  (automation_enabled /\ mainPc \in {"stopped", "exited"})
    => \A i \in 0..(NumFiles - 1) :
         Cardinality({k \in 1..Len(enqLog) : enqLog[k] = i}) = 1

\* C4: a segment is put on the transcription queue only after the stable-file
\* gate returned True for it; a segment whose gate timed out is never put on
\* it; with automation off nothing is ever put on it.
C4_EnqueueOnlyAfterGate ==
  /\ Range(transcribe_queue) \subseteq Range(enqLog)
  /\ Range(enqLog) \subseteq gatePassed
  /\ Range(enqLog) \cap gateFailed = {}
  /\ ~automation_enabled => enqLog = <<>>

\* One segment went through the gate and the queue, another was refused.
C4_Witness ==
  /\ automation_enabled
  /\ enqLog # <<>>
  /\ gateFailed # {}

\* C5: the summarization jobs put on the queue are, in order, one per
\* transcribe() call that returned, with that call's segment and text (empty
\* or not); a job whose transcribe() raised has none; every one of them
\* comes from a job the worker dequeued.
C5_OneSummarizationJobPerTranscript ==
  /\ sumEnqLog = txReturned
  /\ \A k \in 1..Len(sumEnqLog) : sumEnqLog[k].seg \in Range(txDequeued)
  /\ Len(sumEnqLog) <= Len(txDequeued)

\* An empty and a non-empty transcript were both handed over.
C5_Witness ==
  /\ \E k \in 1..Len(sumEnqLog) : sumEnqLog[k].transcript = <<>>
  /\ \E k \in 1..Len(sumEnqLog) : sumEnqLog[k].transcript # <<>>

\* C6: the segment indices put on the transcription queue are strictly
\* increasing.
C6_EnqueuedInIndexOrder ==
  \A a, b \in 1..Len(enqLog) : a < b => enqLog[a] < enqLog[b]

\* The summarize() calls begun so far, in order, as sequences of segments.
SumOrder ==
  [k \in 1..Len(sumLog) |-> sumLog[k].segs]
    \o (IF SumHolding THEN <<batch_metadata>> ELSE <<>>)

\* C7: a summarization that begins after another one covers segments of
\* higher index only.
C7_SummarizedInIndexOrder ==
  \A a, b \in 1..Len(SumOrder) :
    a < b => \A i \in Range(SumOrder[a]), j \in Range(SumOrder[b]) : i < j

\* C8: once a summarization has succeeded, rolling_summary.md exists and holds
\* the rolling summary text the pipeline has in memory.
C8_RollingFileMirrorsMemory ==
  (\E k \in 1..Len(sumLog) : sumLog[k].ok)
    => /\ rollingFile # None
       /\ rollingFile = Strip(Or(rolling_summary_text, <<>>)) \o <<"\n">>

\* C9: every segment whose non-empty transcript was summarized successfully
\* has its own segment_NNN_summary.md.
C9_SegmentSummaryFileWritten ==
  \A k \in 1..Len(sumLog) :
    sumLog[k].ok => Range(sumLog[k].segs) \subseteq segSummaryFiles

RespTokens ==
  {"<<ROLLING_SUMMARY>>", "<</rolling_summary>>",
   "<<segment_summary>>", "<</SEGMENT_SUMMARY>>", "\n", "x"}

RECURSIVE SeqsUpTo(_, _)
SeqsUpTo(S, n) ==
  IF n = 0 THEN {<<>>}
  ELSE LET shorter == SeqsUpTo(S, n - 1)
       IN  shorter \cup {Append(q, t) : q \in shorter, t \in S}

ParseResponses == SeqsUpTo(RespTokens, MaxRespLen) \cup {RespBoth}
PriorRolling == {None, <<>>, <<"R0">>}

InitParse ==
  /\ automation_enabled = TRUE
  /\ segment_duration = SegDur
  /\ recording = TRUE
  /\ ffmpeg_process = "alive"
  /\ mainPc = "recording"
  /\ current_session_dir = 1
  /\ metadataFile = <<"start">>
  /\ staleMon = <<>>
  /\ CallsIdle
  /\ segFiles = <<SegDur, 0>>
  /\ sidecars = {0}
  /\ transcriptFiles = Put(<<>>, 0, Speech(0))
  /\ batchFiles = <<>>
  /\ segSummaryFiles = {}
  /\ rollingFile = None
  /\ finalSummaryFile = None
  /\ finalTranscriptFile = None
  /\ monPc = "poll"
  /\ monFiles = <<0>>
  /\ monCur = 0
  /\ seen = {0}
  /\ summary_batch_size = 1
  /\ whisper_backend = "cli"
  /\ pyw_model = FALSE
  /\ running = TRUE
  /\ tx_busy = FALSE
  /\ sum_busy = FALSE
  /\ transcribe_queue = <<>>
  /\ summarize_queue = <<>>
  /\ rolling_summary_text \in PriorRolling
  /\ batch_summaries = <<>>
  /\ processed_tx = 1
  /\ txPc = "get"
  /\ txJob = NoPath
  /\ sumPc = "process_wait"
  /\ batch = <<Speech(0)>>
  /\ batch_metadata = <<0>>
  /\ batch_count = 0
  /\ enqLog = <<0>>
  /\ gatePassed = {0}
  /\ gateFailed = {}
  /\ txDequeued = <<0>>
  /\ txReturned = <<[seg |-> 0, transcript |-> Speech(0)]>>
  /\ txCalls = <<>>
  /\ sumEnqLog = <<[seg |-> 0, transcript |-> Speech(0)]>>
  /\ sumLog = <<>>
  /\ pendingAtStop = {}
  /\ synthInput = {}

SumProcessParse ==
  SumProcessWith({[ok |-> TRUE, resp |-> r] : r \in ParseResponses})

NextParse == SumProcessParse

SpecParse == InitParse /\ [][NextParse]_vars

\* The first <<tag>> ... <</tag>> pair of a text, read off the text itself.
FirstOpen(text, tag) ==
  CHOOSE i \in 1..Len(text) :
    /\ text[i] \in OpenTag(tag)
    /\ \A h \in 1..(i - 1) : text[h] \notin OpenTag(tag)
FirstCloseAfter(text, tag, i) ==
  CHOOSE j \in (i + 1)..Len(text) :
    /\ text[j] \in CloseTag(tag)
    /\ \A h \in (i + 1)..(j - 1) : text[h] \notin CloseTag(tag)
HasPair(text, tag) ==
  \E i, j \in 1..Len(text) :
    i < j /\ text[i] \in OpenTag(tag) /\ text[j] \in CloseTag(tag)
InnerText(text, tag) ==
  LET i == FirstOpen(text, tag)
      j == FirstCloseAfter(text, tag, i)
  IN  Strip(SubSeq(text, i + 1, j - 1))

\* C11 as stated: the segment summary is the trimmed inner text of the first
\* SEGMENT_SUMMARY pair if the pair is present, else the whole response; the
\* new rolling text is the trimmed inner text of the ROLLING_SUMMARY pair if
\* present, else the prior text if non-empty, else the segment summary.
C11_TagsPresentDecide ==
  \A k \in 1..Len(sumLog) :
    sumLog[k].ok =>
      LET r == sumLog[k].resp
          p == Or(sumLog[k].before, <<>>)
          seg == IF HasPair(r, "SEGMENT_SUMMARY")
                 THEN InnerText(r, "SEGMENT_SUMMARY") ELSE r
      IN  /\ sumLog[k].ret = seg
          /\ sumLog[k].after = IF HasPair(r, "ROLLING_SUMMARY")
                               THEN InnerText(r, "ROLLING_SUMMARY")
                               ELSE IF p # <<>> THEN p ELSE seg

\* A pair counts when it is present and its trimmed inner text is not empty.
Tagged(text, tag) == HasPair(text, tag) /\ InnerText(text, tag) # <<>>

\* C11 amended: the segment summary is the trimmed inner text of the first
\* SEGMENT_SUMMARY pair if that is present and not empty, else the whole
\* response; the new rolling text is the trimmed inner text of the
\* ROLLING_SUMMARY pair if present and not empty, else the prior text if
\* non-empty, else the segment summary.
C11_NonEmptyTagsDecide ==
  \A k \in 1..Len(sumLog) :
    sumLog[k].ok =>
      LET r == sumLog[k].resp
          p == Or(sumLog[k].before, <<>>)
          seg == IF Tagged(r, "SEGMENT_SUMMARY")
                 THEN InnerText(r, "SEGMENT_SUMMARY") ELSE r
      IN  /\ sumLog[k].ret = seg
          /\ sumLog[k].after = IF Tagged(r, "ROLLING_SUMMARY")
                               THEN InnerText(r, "ROLLING_SUMMARY")
                               ELSE IF p # <<>> THEN p ELSE seg

\* A response with an empty SEGMENT_SUMMARY pair and no ROLLING_SUMMARY pair
\* was parsed against a non-empty prior rolling text.
C11_Witness ==
  \E k \in 1..Len(sumLog) :
    /\ sumLog[k].ok
    /\ HasPair(sumLog[k].resp, "SEGMENT_SUMMARY")
    /\ ~Tagged(sumLog[k].resp, "SEGMENT_SUMMARY")
    /\ ~HasPair(sumLog[k].resp, "ROLLING_SUMMARY")
    /\ sumLog[k].before = <<"R0">>
    /\ sumLog[k].after = <<"R0">>

\* C12: a summarizer request that fails or times out makes summarize() return
\* empty text and leaves the rolling summary text as it was; the worker comes
\* back to its queue with the batch cleared and the queued jobs untouched.
C12_SummarizerFailureIsContained ==
  /\ [](\A k \in 1..Len(sumLog) :
         (sumLog[k].request /\ ~sumLog[k].ok)
           => /\ sumLog[k].ret = <<>>
              /\ sumLog[k].after = sumLog[k].before)
  /\ [][(sumPc \in {"process_wait", "flush_wait"} /\ sumLog' # sumLog
         /\ ~sumLog'[Len(sumLog')].ok)
          => /\ sumPc' = "poll"
             /\ batch' = <<>>
             /\ summarize_queue' = summarize_queue
             /\ rolling_summary_text' = rolling_summary_text]_vars

\* A request failed after the rolling summary had been set, and the text
\* was kept.
C12_Witness ==
  \E k \in 1..Len(sumLog) :
    /\ sumLog[k].request
    /\ ~sumLog[k].ok
    /\ ~Falsy(sumLog[k].before)
    /\ rolling_summary_text = sumLog[k].before

\* ------------------------------------------------------- failing disk writes
\* _process_summary_batch when the batch summary file cannot be written:
\* summarize() has returned (the rolling text is updated), os.makedirs or
\* open(batch_summary_path, 'w') raises, nothing in _process_summary_batch or
\* _sum_worker catches it, and the worker thread ends.
SumProcessWriteFails ==
  /\ Alive
  /\ \/ sumPc \in {"process", "flush"} /\ Strip(Join(<<"\n", "\n">>, batch)) = <<>>
     \/ sumPc \in {"process_wait", "flush_wait"}
  /\ \E o \in SummarizerOutcomes :
       LET batch_text == Join(<<"\n", "\n">>, batch)
           r == Summarize(NoPath, batch_text, rolling_summary_text, o)
       IN  /\ rolling_summary_text' = r.rolling
           /\ sumLog' = Append(sumLog, [segs |-> batch_metadata,
                                        text |-> batch_text,
                                        request |-> r.request,
                                        ok |-> r.ok,
                                        resp |-> o.resp,
                                        ret |-> r.ret,
                                        before |-> rolling_summary_text,
                                        after |-> r.rolling])
  /\ sumPc' = "dead"
  /\ UNCHANGED <<batch, batch_metadata, batch_count>>
  /\ UNCHANGED <<summary_batch_size, whisper_backend, pyw_model, running, tx_busy, sum_busy,
                 transcribe_queue, summarize_queue, batch_summaries,
                 processed_tx>>
  /\ UNCHANGED <<txCalls, enqLog, gatePassed, gateFailed, txDequeued, txReturned,
                 sumEnqLog, pendingAtStop, synthInput>>
  /\ UNCHANGED <<recorderVars, sessVars, callVars, diskVars, monVars, txVars>>

InitFaulty == InitWith({TRUE}, {SegDur}, {MaxBatch})

NextFaulty ==
  \/ Next
  \/ SumProcessWriteFails

SpecFaulty == InitFaulty /\ [][NextFaulty]_vars

\* C13: a summary artifact that cannot be written never ends the
\* summarization worker.
C13_WriteFailureLeavesWorkerRunning == sumPc # "dead"

\* ------------------------------------------------ transcription, per backend
\* A recording session with two complete segments waiting on the
\* transcription queue, for each configured backend.
InitTx ==
  /\ automation_enabled = TRUE
  /\ segment_duration = TxWavDur
  /\ recording = TRUE
  /\ ffmpeg_process = "alive"
  /\ mainPc = "recording"
  /\ current_session_dir = 1
  /\ metadataFile = <<"start">>
  /\ staleMon = <<>>
  /\ CallsIdle
  /\ segFiles = <<TxWavDur, TxWavDur, 0>>
  /\ sidecars = {0, 1}
  /\ transcriptFiles = <<>>
  /\ batchFiles = <<>>
  /\ segSummaryFiles = {}
  /\ rollingFile = None
  /\ finalSummaryFile = None
  /\ finalTranscriptFile = None
  /\ monPc = "poll"
  /\ monFiles = <<0, 1>>
  /\ monCur = 1
  /\ seen = {0, 1}
  /\ summary_batch_size = 1
  /\ whisper_backend \in Backends
  /\ pyw_model = FALSE
  /\ running = TRUE
  /\ tx_busy = FALSE
  /\ sum_busy = FALSE
  /\ transcribe_queue = <<0, 1>>
  /\ summarize_queue = <<>>
  /\ rolling_summary_text = None
  /\ batch_summaries = <<>>
  /\ processed_tx = 0
  /\ txPc = "get"
  /\ txJob = NoPath
  /\ sumPc = "poll"
  /\ batch = <<>>
  /\ batch_metadata = <<>>
  /\ batch_count = 0
  /\ enqLog = <<0, 1>>
  /\ gatePassed = {0, 1}
  /\ gateFailed = {}
  /\ txDequeued = <<>>
  /\ txReturned = <<>>
  /\ txCalls = <<>>
  /\ sumEnqLog = <<>>
  /\ sumLog = <<>>
  /\ pendingAtStop = {}
  /\ synthInput = {}

\* _tx_worker: transcribe() and what follows it, with the call on record.
TxTranscribeLogged ==
  /\ txPc = "transcribe"
  /\ \E e \in TxEnvs(whisper_backend, pyw_model, txJob, segFiles[txJob + 1]) :
       LET r == transcribe(e, segFiles[txJob + 1], whisper_backend, pyw_model)
       IN  /\ TxHandOff(r)
           /\ txCalls' = Append(txCalls, [seg |-> txJob,
                                          configured |-> whisper_backend,
                                          wav |-> segFiles[txJob + 1],
                                          env |-> e,
                                          res |-> r])

NextTx ==
  \/ TxGet
  \/ TxSetBusy
  \/ TxTranscribeLogged

SpecTx == InitTx /\ [][NextTx]_vars

\* The calls whose first attempt failed transiently: whisper-cli exited
\* non-zero, or the request to the server failed.
CliRan(c) == c.res.cli_runs > 0
TransientFailure(c) ==
  \/ CliRan(c) /\ c.env.cli = "exit_nonzero"
  \/ c.configured = "server" /\ c.env.srv \in {"unreachable", "http_error"}
Attempts(c) == c.res.cli_runs + c.res.requests
HandedOver(seg) == {j \in 1..Len(sumEnqLog) : sumEnqLog[j].seg = seg}

BindingUnavailable(c) ==
  c.configured = "pywhispercpp" /\ c.env.pyw \in {"import_fails", "init_fails"}
ServerUnreachable(c) ==
  c.configured = "server" /\ c.env.srv = "unreachable"

\* C16 (as stated): when the configured backend is unavailable the segment is
\* transcribed through whisper-cli.
C16_UnavailableBackendFallsBackToCli ==
  \A k \in 1..Len(txCalls) :
    (BindingUnavailable(txCalls[k]) \/ ServerUnreachable(txCalls[k]))
      => CliRan(txCalls[k])

\* C16 (amended): a binding that cannot be imported or initialised sends the
\* segment, and every later one, through whisper-cli; a server that cannot be
\* reached yields the empty transcript, whisper-cli is not run, and the
\* backend stays "server".
C16_OnlyBindingFallsBackToCli ==
  \A k \in 1..Len(txCalls) :
    LET c == txCalls[k]
    IN  /\ BindingUnavailable(c)
             => /\ c.res.cli_runs = 1
                /\ c.res.backend = "cli"
                /\ \A j \in (k + 1)..Len(txCalls) :
                     txCalls[j].configured = "cli" /\ CliRan(txCalls[j])
        /\ ServerUnreachable(c)
             => /\ c.res.cli_runs = 0
                /\ ~c.res.raised
                /\ c.res.text = <<>>
                /\ c.res.backend = "server"

\* The binding failed to load at the first segment, whisper-cli transcribed
\* both segments and their transcripts were handed over.
C16_Witness ==
  /\ Len(txCalls) = 2
  /\ BindingUnavailable(txCalls[1])
  /\ txCalls[2].configured = "cli"
  /\ sumEnqLog = <<[seg |-> 0, transcript |-> Speech(0)],
                   [seg |-> 1, transcript |-> Speech(1)]>>

\* Calls of the external tools that have been started and have not ended:
\* transcribe() in the transcription worker; requests.post to the summarizer
\* in the summarization worker and in the thread that runs drain().
TranscriberInFlight == IF txPc = "transcribe" THEN 1 ELSE 0
SummarizerInFlight ==
  (IF sumPc \in {"process_wait", "flush_wait", "synth_wait"} THEN 1 ELSE 0)
  + (IF mainPc = "synth_wait" THEN 1 ELSE 0)

\* C17: at most one transcriber invocation and at most one summarizer request
\* are in flight at any time, the final synthesis of drain() included.
C17_OneInvocationInFlight ==
  /\ TranscriberInFlight <= 1
  /\ SummarizerInFlight <= 1

\* ------------------------------------------------- transcript files, written
\* The server backend with the write of segment_NNN_transcript.txt in its two
\* steps: open(transcript_txt_path, 'w') creates or truncates the file, and
\* leaving the `with` block puts the text in it.
WritingOutcomes(seg) == {o \in TranscribeOutcomes(seg) : o.file # None}

TxTranscribeNoFile ==
  TxTranscribeWith(TranscribeOutcomes(txJob) \ WritingOutcomes(txJob))

TxWriteOpen ==
  /\ Alive
  /\ txPc = "transcribe"
  /\ WritingOutcomes(txJob) # {}
  /\ transcriptFiles' = Put(transcriptFiles, txJob, <<>>)
  /\ txPc' = "writing"
  /\ UNCHANGED txJob
  /\ UNCHANGED <<segFiles, sidecars, batchFiles, segSummaryFiles, rollingFile,
                 finalSummaryFile, finalTranscriptFile>>
  /\ UNCHANGED <<recorderVars, sessVars, callVars, monVars, pipeVars, sumVars, histVars>>

TxWriteClose ==
  /\ txPc = "writing"
  /\ \E o \in WritingOutcomes(txJob) : TxHandOff(o)
  /\ UNCHANGED txCalls

InitWrites == InitConfigured({TRUE}, {SegDur}, {MaxBatch}, {"server"})

NextWrites ==
  \/ StartRecording
  \/ CaptureWrite
  \/ CaptureRotate
  \/ MonitorPoll
  \/ MonitorIter
  \/ MonitorGatePass
  \/ MonitorGateTimeout
  \/ MonitorEnqueue
  \/ TxGet
  \/ TxSetBusy
  \/ TxTranscribeNoFile
  \/ TxWriteOpen
  \/ TxWriteClose
  \/ TxExit
  \/ SumGet
  \/ SumSendRequest
  \/ SumProcess
  \/ SumFlush
  \/ SumExit
  \/ SumSynthCheck
  \/ SumFinalSynth
  \/ StopRecording
  \/ DrainCheckIdle
  \/ DrainCheckTxQueue
  \/ DrainCheckSumQueue
  \/ DrainFinalTranscript
  \/ DrainFinalSynthCheck
  \/ DrainFinalSynth
  \/ StopFinalCopy
  \/ PipelineStop
  \/ Exit

SpecWrites == InitWrites /\ [][NextWrites]_vars

\* C18: no artifact is read while it is being written: generate_final_transcript
\* never reads the per-segment transcripts while one of them is open for
\* writing.
C18_ReadersSeeCompleteFiles ==
  [][(mainPc = "final_transcript" /\ mainPc' = "final_synth")
       => txPc # "writing"]_vars

\* stop_recording() has returned for a session recorded with automation.
StopReturned == automation_enabled /\ mainPc \in {"stopped", "exited"}

\* C19 (as stated): after stop_recording() returns for a session with
\* automation, final_transcript.txt exists if and only if the session has a
\* per-segment transcript.
C19_FinalTranscriptIffAnyTranscript ==
  StopReturned => (finalTranscriptFile # None <=> Keys(transcriptFiles) # {})

\* C19 (amended): after stop_recording() returns for a session with
\* automation, final_transcript.txt exists, and it holds a single newline
\* when the session has no per-segment transcript.
C19_FinalTranscriptAlwaysWritten ==
  StopReturned
    => /\ finalTranscriptFile # None
       /\ Keys(transcriptFiles) = {} => finalTranscriptFile = <<"\n">>

\* A session stopped before any transcript was written.
C19_Witness ==
  /\ StopReturned
  /\ Keys(transcriptFiles) = {}
  /\ finalTranscriptFile = <<"\n">>

\* ------------------------------------------------ final transcript, alone
\* The keys of a file map in increasing order.
RECURSIVE ByIndex(_)
ByIndex(S) ==
  IF S = {} THEN <<>>
  ELSE LET m == CHOOSE x \in S : \A y \in S : x <= y
       IN  <<m>> \o ByIndex(S \ {m})

\* A stopped session of MaxSegsLong segments whose drain() is about to call
\* generate_final_transcript.  The in-process binding transcribed the segments
\* of S and raised on the others; the summarization worker holds the
\* transcripts in a batch that summary_batch_size has not filled.
InitFinalFor(S) ==
  /\ automation_enabled = TRUE
  /\ segment_duration = ShortSegDur
  /\ recording = FALSE
  /\ ffmpeg_process = "none"
  /\ mainPc = "final_transcript"
  /\ current_session_dir = 1
  /\ metadataFile = <<"end">>
  /\ staleMon = <<>>
  /\ CallsIdle
  /\ segFiles = [i \in 1..MaxSegsLong |-> ShortSegDur]
  /\ sidecars = 0..(MaxSegsLong - 1)
  /\ transcriptFiles = [i \in S |-> Speech(i)]
  /\ batchFiles = <<>>
  /\ segSummaryFiles = {}
  /\ rollingFile = None
  /\ finalSummaryFile = None
  /\ finalTranscriptFile = None
  /\ monPc = "exit"
  /\ monFiles = SortedByName(0..(MaxSegsLong - 1))
  /\ monCur = monFiles[MaxSegsLong]
  /\ seen = 0..(MaxSegsLong - 1)
  /\ summary_batch_size = MaxSegsLong + 1
  /\ whisper_backend = "pywhispercpp"
  /\ pyw_model = TRUE
  /\ running = TRUE
  /\ tx_busy = FALSE
  /\ sum_busy = FALSE
  /\ transcribe_queue = <<>>
  /\ summarize_queue = <<>>
  /\ rolling_summary_text = None
  /\ batch_summaries = <<>>
  /\ processed_tx = Cardinality(S)
  /\ txPc = "get"
  /\ txJob = NoPath
  /\ sumPc = "poll"
  /\ batch = [k \in 1..Cardinality(S) |-> Speech(ByIndex(S)[k])]
  /\ batch_metadata = ByIndex(S)
  /\ batch_count = 0
  /\ enqLog = monFiles
  /\ gatePassed = 0..(MaxSegsLong - 1)
  /\ gateFailed = {}
  /\ txDequeued = monFiles
  /\ txReturned = [k \in 1..Cardinality(S) |->
                     [seg |-> ByIndex(S)[k], transcript |-> Speech(ByIndex(S)[k])]]
  /\ txCalls = <<>>
  /\ sumEnqLog = txReturned
  /\ sumLog = <<>>
  /\ pendingAtStop = {}
  /\ synthInput = {}

InitFinal == \E S \in SUBSET (0..(MaxSegsLong - 1)) : InitFinalFor(S)

NextFinal ==
  \/ DrainFinalTranscript
  \/ DrainFinalSynthCheck
  \/ StopFinalCopy

SpecFinal == InitFinal /\ [][NextFinal]_vars

\* The per-segment transcripts, each once, in increasing index order, with a
\* blank line between two of them.
InIndexOrder(files) ==
  Join(<<"\n", "\n">>,
       [k \in 1..Cardinality(Keys(files)) |-> Strip(files[ByIndex(Keys(files))[k]])])
  \o <<"\n">>

\* C20: the final_transcript.txt that generate_final_transcript writes is the
\* per-segment transcripts of the session, each once, in increasing index
\* order, separated by blank lines.
C20_FinalTranscriptInIndexOrder ==
  [][(mainPc = "final_transcript" /\ mainPc' = "final_synth")
       => finalTranscriptFile' = InIndexOrder(transcriptFiles)]_vars

\* A segment of the session has been summarized: a summarizer request for a
\* batch was answered.
SomeSegmentSummarized == \E k \in 1..Len(sumLog) : sumLog[k].ok

\* C21: after stop_recording() returns for a session with automation in which
\* a segment was summarized, final_summary.md exists, and it is the copy of
\* rolling_summary.md when no batch summary is buffered.
C21_FinalSummaryExistsAfterStop ==
  (StopReturned /\ SomeSegmentSummarized)
    => /\ finalSummaryFile # None
       /\ batch_summaries = <<>> => finalSummaryFile = rollingFile

\* ------------------------------------------------ sessions of one process
\* interactive_mode: "start" after a session has ended, or after a start that
\* returned False.
StartRecordingAgain == StartSession({"stopped", "failed"})

\* start_recording returning False.  "exited": the capture subprocess ended
\* within the one-second sleep, and self.ffmpeg_process keeps the Popen object
\* of the dead process.  "raised": Popen raised, and self.ffmpeg_process is
\* still None.  Neither sets recording, starts a monitor thread or starts the
\* pipeline.
StartOutcomes == {"exited", "raised"}

StartRecordingFails(outcome) ==
  /\ mainPc \in {"init", "stopped", "failed"}
  /\ ffmpeg_process = "none"
  /\ NewSessionDir(<<>>)
  /\ ffmpeg_process' = IF outcome = "exited" THEN "dead" ELSE "none"
  /\ mainPc' = "failed"
  /\ UNCHANGED callVars
  /\ UNCHANGED <<automation_enabled, segment_duration, recording, staleMon>>
  /\ UNCHANGED <<monVars, pipeVars, txVars, sumVars, histVars>>

\* stop_recording: `if not self.ffmpeg_process: return`.
StopRecordingNoSession ==
  /\ mainPc \in {"init", "stopped", "failed"}
  /\ ffmpeg_process = "none"
  /\ UNCHANGED vars

\* The monitor thread of an earlier session evaluates `while self.recording`:
\* it returns when the flag is False, and goes through its loop body and
\* time.sleep(2) once more when the flag is True (its glob is over the earlier
\* session's directory, where no file is new).
StaleMonitorPoll(s) ==
  /\ Alive
  /\ s \in 1..Len(staleMon)
  /\ staleMon[s] = "loop"
  /\ staleMon' = [staleMon EXCEPT ![s] = IF recording THEN "loop" ELSE "exit"]
  /\ UNCHANGED <<current_session_dir, metadataFile, callVars>>
  /\ UNCHANGED <<recorderVars, diskVars, monVars, pipeVars, txVars, sumVars, histVars>>

\* A recorder without automation, used for several sessions.
InitSession == InitWith({FALSE}, {SegDur}, {MaxBatch})

NextSession ==
  \/ CaptureWrite
  \/ CaptureRotate
  \/ StartRecording
  \/ StartRecordingAgain
  \/ \E outcome \in StartOutcomes : StartRecordingFails(outcome)
  \/ StopRecording
  \/ StopRecordingNoSession
  \/ StopFinalCopy
  \/ Exit
  \/ MonitorPoll
  \/ MonitorIter
  \/ \E s \in 1..MaxSessions : StaleMonitorPoll(s)

SpecSession == InitSession /\ [][NextSession]_vars

\* A stop_recording() call begins, at the prompt, while no session is running.
StopCalledWithoutSession ==
  /\ ~recording
  /\ mainPc \in {"init", "stopped", "failed"}
  /\ StopRecording \/ StopRecordingNoSession

\* C22: stop_recording() called when no session is running (never started,
\* already stopped, or after a start_recording that returned False) changes no
\* recorder or pipeline state and writes no file.
C22_StopWithoutSessionIsNoOp ==
  [][StopCalledWithoutSession
       => UNCHANGED <<recording, ffmpeg_process, sessVars, diskVars, pipeVars>>]_vars

\* Every monitor thread is scheduled: its time.sleep(2) ends and it evaluates
\* its loop condition again.  Nothing obliges the user to type a command.
SpecSessionFair ==
  /\ SpecSession
  /\ WF_vars(MonitorPoll)
  /\ WF_vars(MonitorIter)
  /\ \A s \in 1..MaxSessions : WF_vars(StaleMonitorPoll(s))

\* The k-th _monitor_segments thread started in the process: whether it has
\* been started, whether stop_recording has set recording = False for its
\* session, and whether it is in its loop or has returned.
MonitorStarted(k) ==
  \/ k <= Len(staleMon)
  \/ k = Len(staleMon) + 1 /\ monPc # "off"

MonitorSessionStopped(k) ==
  \/ k <= Len(staleMon)
  \/ k = Len(staleMon) + 1 /\ ~recording

MonitorState(k) == IF k <= Len(staleMon) THEN staleMon[k] ELSE Stale(monPc)

\* C23: for every session, once stop_recording has set recording = False the
\* monitor thread started for that session eventually leaves its polling loop
\* and returns (or the process has exited), also when start_recording is
\* called again for a new session.
C23_MonitorExitsAfterStop ==
  \A k \in 1..MaxSessions :
    (MonitorStarted(k) /\ MonitorSessionStopped(k))
      ~> (MonitorState(k) = "exit" \/ ~Alive)

\* -------------------------------------- _wait_for_stable_file, poll by poll
\* The call made by the monitor for segment file monCur, or the same call for
\* a path outside segments/.  The file exists when the call is made.  Times
\* are in poll periods since the call; the probe answers within the period.
GateTimeout(isSeg) ==
  (IF isSeg THEN segment_duration + GateSlack ELSE GateSlack) * TicksPerSecond

StableTicks == StableTime * TicksPerSecond

\* `if size == last_size`: stable_since after the test, and size_stable.
StableSince(w, size) ==
  IF size = w.last_size
  THEN IF w.stable_since = NoTime THEN w.now ELSE w.stable_since
  ELSE NoTime

\* A gate that takes the second equal reading as stable.
SizeStable_SecondReading(w, size) == size = w.last_size

SizeStable(w, size) ==
  /\ size = w.last_size
  /\ w.stable_since # NoTime
  /\ w.now - w.stable_since >= StableTicks

\* `actual_duration >= (expected_duration - 2.0)`
DurationComplete(d) == d >= segment_duration - DurationTolerance

\* What the polls have observed (not program state): the size seen by the
\* latest poll, the time spanned by the latest polls that saw one same size
\* of at least min_size, and the time of the poll that first saw the present
\* size.
Observed(w, size) ==
  [w EXCEPT !.lastPoll = w.now,
            !.seenSize = size,
            !.run = IF size >= MinSize /\ size = w.seenSize
                    THEN w.run + (w.now - w.lastPoll) ELSE 0,
            !.since = IF size = w.seenSize THEN w.since ELSE w.now]

\* One pass of `while time.time() - start < timeout`, up to the return, the
\* `continue` or the end of time.sleep(0.2).
WaitPoll ==
  /\ stableWait.pc = "loop"
  /\ LET w == stableWait
         size == FileSize(monCur)
         o == Observed(w, size)
         polled == [o EXCEPT !.last_size = size,
                             !.stable_since = StableSince(w, size)]
         slept(v) == [v EXCEPT !.now = w.now + 1]
     IN  IF ~(w.now < GateTimeout(w.is_segment_file))
         THEN stableWait' = [w EXCEPT !.pc = "false"]
         ELSE IF size < MinSize
         THEN stableWait' = slept(o)
         ELSE IF SizeStable(w, size) /\ w.is_segment_file /\ segment_duration # 0
         THEN \E probe \in {"ok", "failed"} :
                stableWait' =
                  IF probe = "failed" \/ DurationComplete(Duration(monCur))
                  THEN [polled EXCEPT !.pc = "true", !.probe = probe]
                  ELSE [polled EXCEPT !.stable_since = NoTime, !.probe = probe]
         ELSE IF SizeStable(w, size) /\ ~w.is_segment_file
         THEN stableWait' = [polled EXCEPT !.pc = "true"]
         ELSE stableWait' = slept(polled)
  /\ UNCHANGED <<ctxBuild, refineCall, metrics, threads>>
  /\ UNCHANGED <<recorderVars, sessVars, diskVars, monVars, pipeVars, txVars, sumVars, histVars>>

\* The monitor of a recording session with automation has found
\* segment_000.wav and calls the gate; the capture subprocess goes on writing
\* until the segment is full or stop_recording terminates it.
InitGate ==
  /\ automation_enabled = TRUE
  /\ segment_duration = SegDur
  /\ recording = TRUE
  /\ ffmpeg_process = "alive"
  /\ mainPc = "recording"
  /\ current_session_dir = 1
  /\ metadataFile = <<"start">>
  /\ staleMon = <<>>
  /\ \E isSeg \in BOOLEAN :
       stableWait = [NoWait EXCEPT !.pc = "loop", !.is_segment_file = isSeg]
  /\ ctxBuild = NoBuild
  /\ refineCall = NoRefine
  /\ metrics = NoMetrics
  /\ threads = NoThreads
  /\ segFiles = <<0>>
  /\ sidecars = {0}
  /\ transcriptFiles = <<>>
  /\ batchFiles = <<>>
  /\ segSummaryFiles = {}
  /\ rollingFile = None
  /\ finalSummaryFile = None
  /\ finalTranscriptFile = None
  /\ monPc = "gate"
  /\ monFiles = <<0>>
  /\ monCur = 0
  /\ seen = {0}
  /\ summary_batch_size = MaxBatch
  /\ whisper_backend = "cli"
  /\ pyw_model = FALSE
  /\ running = TRUE
  /\ tx_busy = FALSE
  /\ sum_busy = FALSE
  /\ transcribe_queue = <<>>
  /\ summarize_queue = <<>>
  /\ rolling_summary_text = None
  /\ batch_summaries = <<>>
  /\ processed_tx = 0
  /\ txPc = "get"
  /\ txJob = NoPath
  /\ sumPc = "poll"
  /\ batch = <<>>
  /\ batch_metadata = <<>>
  /\ batch_count = 0
  /\ enqLog = <<>>
  /\ gatePassed = {}
  /\ gateFailed = {}
  /\ txDequeued = <<>>
  /\ txReturned = <<>>
  /\ txCalls = <<>>
  /\ sumEnqLog = <<>>
  /\ sumLog = <<>>
  /\ pendingAtStop = {}
  /\ synthInput = {}

NextGate ==
  \/ CaptureWrite
  \/ StopRecording
  \/ WaitPoll

SpecGate == InitGate /\ [][NextGate]_vars

\* The call has returned True, or False.
WaitTrue == stableWait.pc = "true"
WaitFalse == stableWait.pc = "false"

\* C24: _wait_for_stable_file returns True only if the file has at least
\* min_size bytes and consecutive polls spanning at least stable_time saw its
\* size unchanged; for a segment file, only if in addition the probed
\* duration is at least segment_duration - 2 s or the probe failed.
C24_TrueOnlyIfStableAndComplete ==
  WaitTrue =>
    /\ FileSize(monCur) >= MinSize
    /\ stableWait.run >= StableTicks
    /\ stableWait.is_segment_file =>
         \/ stableWait.probe = "failed"
         \/ Duration(monCur) >= segment_duration - DurationTolerance

\* A segment file passed the gate on its probed duration.
C24_Witness ==
  /\ WaitTrue
  /\ stableWait.is_segment_file
  /\ stableWait.probe = "ok"
  /\ Duration(monCur) < segment_duration

\* What the last poll of the call saw: the file had at least min_size bytes,
\* and the polls had seen that size for stable_time or longer.
SeenConstant ==
  /\ stableWait.seenSize >= MinSize
  /\ stableWait.since + StableTicks <= stableWait.lastPoll

\* Both answers come at the right time, and a file below min_size is refused.
WaitAnswersInTime ==
  /\ WaitTrue => stableWait.now < GateTimeout(stableWait.is_segment_file)
  /\ WaitFalse => stableWait.now >= GateTimeout(stableWait.is_segment_file)
  /\ WaitTrue => stableWait.seenSize >= MinSize

\* C25: a file whose size stays constant at min_size or more for
\* at least stable_time before the timeout is answered True before the
\* timeout; a file that never reaches min_size is answered False, and not
\* before the timeout.
C25_StableFilePassesBeforeTimeout ==
  /\ WaitAnswersInTime
  /\ WaitFalse => ~SeenConstant

\* ------------------------------------------------------ _build_context_wav
\* Files of the call: the current segment, the previous one, and what the
\* builder writes into the transcription directory.
TempFiles == {"temp_prev", "temp_pad", "concat_list"}

\* What the call meets.  prev: whether transcribe found the previous segment;
\* prev_ms, cur_ms: what _get_wav_duration_seconds reads for the previous and
\* the current segment (0 when it cannot); r_prev, r_pad, r_ctx, r_fb: the
\* ffmpeg runs for the previous tail, the silence pad, the context WAV and the
\* fallback ("fail_partial": non-zero exit with the output file left behind;
\* "raise": subprocess.run raised); r_list: writing the concat list;
\* ctx_read: what _get_wav_duration_seconds reads for the context WAV.
CtxEnvs ==
  [prev : {"none", "exists"},
   prev_ms : {0, TxWavDur * 1000},
   cur_ms : {TxWavDur * 1000},
   pre_roll_ms : {0, DefaultPreRollMs},
   pad_ms : {0, DefaultPadMs},
   r_prev : {"ok", "fail", "fail_partial", "raise"},
   r_pad : {"ok", "fail"},
   r_list : {"ok", "raise"},
   r_ctx : {"ok", "fail", "fail_partial", "raise"},
   ctx_read : {"actual", "zero"},
   r_fb : {"ok", "fail", "fail_partial", "raise"}]

\* ctx_info, and what a WAV holds around the audio of the current segment.
CtxInfo(used, tail, pad) ==
  [used_prev |-> used, prev_tail_ms |-> tail, pad_ms |-> pad]

Audio(tail, pad) == [prev_ms |-> tail, pad_ms |-> pad]

\* What a call returns: whether it raised, the returned path ("seg": the
\* current segment itself, "ctx": <segment>_ctx.wav), ctx_info, the audio in
\* the returned WAV and the files on disk.
Returned(raised, path, info, audio, files) ==
  [raised |-> raised, path |-> path, info |-> info, audio |-> audio,
   files |-> files]

RawSegment(files) ==
  Returned(FALSE, "seg", CtxInfo(FALSE, 0, 0), Audio(0, 0), files)

\* A fallback whose ffmpeg call is not guarded.
build_context_wav_fallback_NoCatch(e, files) ==
  IF e.pad_ms > 0 /\ e.r_fb = "ok"
  THEN Returned(FALSE, "ctx", CtxInfo(FALSE, 0, e.pad_ms), Audio(0, e.pad_ms),
                files \cup {"ctx"})
  ELSE [RawSegment(files) EXCEPT !.raised = e.pad_ms > 0 /\ e.r_fb = "raise"]

\* _build_context_wav_fallback: the current segment with the pad, else the
\* current segment as it is.
build_context_wav_fallback(e, files) ==
  IF e.pad_ms > 0
  THEN CASE e.r_fb = "ok" ->
              Returned(FALSE, "ctx", CtxInfo(FALSE, 0, e.pad_ms),
                       Audio(0, e.pad_ms), files \cup {"ctx"})
         [] e.r_fb = "fail_partial" -> RawSegment(files \cup {"ctx"})
         [] OTHER -> RawSegment(files)
  ELSE RawSegment(files)

\* A builder that takes the previous segment whenever there is one.
UsePrev_AnyPreRoll(e) == e.prev = "exists"

\* `prev_seg_path and os.path.exists(prev_seg_path) and pre_roll_ms > 0`
UsePrev(e) == e.prev = "exists" /\ e.pre_roll_ms > 0

\* The `finally` of the second try block.
WithoutTemps(r) == [r EXCEPT !.files = @ \ TempFiles]

\* "Execute ffmpeg command": run, log, existence and duration checks, every
\* return followed by the cleanup of the temporary files.
run_context_command(e, files, info, audio) ==
  LET logged == files \cup {"ctx_log"}
      ctx_ms == IF e.ctx_read = "zero" THEN 0
                ELSE e.cur_ms + audio.prev_ms + audio.pad_ms
  IN  WithoutTemps(
        CASE e.r_ctx = "raise" -> build_context_wav_fallback(e, files)
          [] e.r_ctx = "fail" -> build_context_wav_fallback(e, logged)
          [] e.r_ctx = "fail_partial" ->
               build_context_wav_fallback(e, logged \cup {"ctx"})
          [] OTHER ->
               IF e.cur_ms > 0 /\ ctx_ms < e.cur_ms - CtxToleranceMs
               THEN build_context_wav_fallback(e, logged \cup {"ctx"})
               ELSE Returned(FALSE, "ctx", info, audio, logged \cup {"ctx"}))

\* _build_context_wav
build_context_wav(e, files) ==
  IF ~UsePrev(e)
  THEN run_context_command(e, files, CtxInfo(FALSE, 0, e.pad_ms),
                           Audio(0, e.pad_ms))
  ELSE
    LET tail == Max(0, e.pre_roll_ms)
        extract == e.prev_ms > 0
        withPrev == IF extract /\ e.r_prev \in {"ok", "fail_partial"}
                    THEN files \cup {"temp_prev"} ELSE files
        withPad == IF e.pad_ms > 0 /\ e.r_pad = "ok"
                   THEN withPrev \cup {"temp_pad"} ELSE withPrev
        start_time == Max(0, e.prev_ms - tail)
        audio == Audio(IF "temp_prev" \in withPad THEN e.prev_ms - start_time
                                                 ELSE 0,
                       IF "temp_pad" \in withPad THEN e.pad_ms ELSE 0)
    IN  IF extract /\ e.r_prev # "ok"
        THEN build_context_wav_fallback(e, withPrev)
        ELSE IF e.r_list = "raise"
        THEN build_context_wav_fallback(e, withPad)
        ELSE run_context_command(e, withPad \cup {"concat_list"},
                                 CtxInfo(TRUE, tail, e.pad_ms), audio)

\* transcribe: the call of _build_context_wav for the job's segment.
BuildContextWav ==
  /\ ctxBuild.pc = "call"
  /\ ctxBuild' = [ctxBuild EXCEPT
                    !.pc = "built",
                    !.ret = build_context_wav(ctxBuild.env, ctxBuild.files),
                    !.files = build_context_wav(ctxBuild.env, ctxBuild.files).files]
  /\ UNCHANGED <<stableWait, refineCall, metrics, threads>>
  /\ UNCHANGED <<recorderVars, sessVars, diskVars, monVars, pipeVars, txVars, sumVars, histVars>>

\* transcribe, the `finally` of each backend branch:
\* `if segment_for_whisper != segment_path_abs and os.path.exists(...)`:
\* os.remove(segment_for_whisper).
RemoveContext(path, files) == IF path # "seg" THEN files \ {path} ELSE files

\* transcribe returns or raises after the backend has run.
TranscribeFinally ==
  /\ ctxBuild.pc = "built"
  /\ ctxBuild' = [ctxBuild EXCEPT
                    !.pc = "done",
                    !.files = RemoveContext(ctxBuild.ret.path, ctxBuild.files)]
  /\ UNCHANGED <<stableWait, refineCall, metrics, threads>>
  /\ UNCHANGED <<recorderVars, sessVars, diskVars, monVars, pipeVars, txVars, sumVars, histVars>>

\* Segment 0 went through the cli backend, which exited non-zero: the job was
\* handed on with an empty transcript.
FirstJobFailed ==
  [seg |-> 0, configured |-> "cli", wav |-> TxWavDur,
   env |-> [text |-> <<>>, pyw |-> "ok", cli |-> "exit_nonzero",
            srv |-> "text", covered |-> 0, prev_tail |-> 0,
            retry |-> [text |-> <<>>, ok |-> FALSE]],
   res |-> TxResult(FALSE, <<>>, None, 1, 0, "cli", FALSE)]

\* A recording session with two complete segments: the transcription worker
\* has taken segment `job` from the queue and calls transcribe, which finds
\* the previous segment file exactly when job = 1.
InitCtx ==
  \E job \in {0, 1} :
    /\ automation_enabled = TRUE
    /\ segment_duration = TxWavDur
    /\ recording = TRUE
    /\ ffmpeg_process = "alive"
    /\ mainPc = "recording"
    /\ current_session_dir = 1
    /\ metadataFile = <<"start">>
    /\ staleMon = <<>>
    /\ stableWait = NoWait
    /\ refineCall = NoRefine
    /\ metrics = NoMetrics
    /\ threads = NoThreads
    /\ \E e \in CtxEnvs :
         /\ e.prev = (IF job = 1 THEN "exists" ELSE "none")
         /\ e.prev = "none" => e.prev_ms = 0
         /\ ctxBuild = [pc |-> "call", env |-> e, ret |-> NoRet,
                        files |-> IF job = 1 THEN {"seg", "prev"} ELSE {"seg"}]
    /\ segFiles = <<TxWavDur, TxWavDur, 0>>
    /\ sidecars = {0, 1}
    /\ transcriptFiles = <<>>
    /\ batchFiles = <<>>
    /\ segSummaryFiles = {}
    /\ rollingFile = None
    /\ finalSummaryFile = None
    /\ finalTranscriptFile = None
    /\ monPc = "poll"
    /\ monFiles = <<0, 1>>
    /\ monCur = 1
    /\ seen = {0, 1}
    /\ summary_batch_size = 1
    /\ whisper_backend = "cli"
    /\ pyw_model = FALSE
    /\ running = TRUE
    /\ tx_busy = TRUE
    /\ sum_busy = FALSE
    /\ transcribe_queue = (IF job = 1 THEN <<>> ELSE <<1>>)
    /\ summarize_queue =
         (IF job = 1 THEN <<[seg |-> 0, transcript |-> <<>>]>> ELSE <<>>)
    /\ rolling_summary_text = None
    /\ batch_summaries = <<>>
    /\ processed_tx = job
    /\ txPc = "transcribe"
    /\ txJob = job
    /\ sumPc = "poll"
    /\ batch = <<>>
    /\ batch_metadata = <<>>
    /\ batch_count = 0
    /\ enqLog = <<0, 1>>
    /\ gatePassed = {0, 1}
    /\ gateFailed = {}
    /\ txDequeued = (IF job = 1 THEN <<0, 1>> ELSE <<0>>)
    /\ txReturned =
         (IF job = 1 THEN <<[seg |-> 0, transcript |-> <<>>]>> ELSE <<>>)
    /\ txCalls = (IF job = 1 THEN <<FirstJobFailed>> ELSE <<>>)
    /\ sumEnqLog =
         (IF job = 1 THEN <<[seg |-> 0, transcript |-> <<>>]>> ELSE <<>>)
    /\ sumLog = <<>>
    /\ pendingAtStop = {}
    /\ synthInput = {}

NextCtx ==
  \/ BuildContextWav
  \/ TranscribeFinally

SpecCtx == InitCtx /\ [][NextCtx]_vars

\* _build_context_wav has returned; transcribe has returned or raised.
Built == ctxBuild.pc \in {"built", "done"}
TranscribeEnded == ctxBuild.pc = "done"

\* The call was made with no pad and with no usable previous segment or no
\* pre-roll.
NothingToAdd ==
  /\ ctxBuild.env.pad_ms = 0
  /\ ctxBuild.env.prev = "none" \/ ctxBuild.env.pre_roll_ms = 0

\* C26 (as stated): with no pad and no usable previous segment or no
\* pre-roll, _build_context_wav returns the current segment's own path and
\* creates no context WAV.
C26_NothingToAddReturnsSegment ==
  (Built /\ NothingToAdd)
    => ctxBuild.ret.path = "seg" /\ "ctx" \notin ctxBuild.ret.files

\* C26 (amended): with no pad and no usable previous segment or no pre-roll,
\* _build_context_wav reports used_prev false, prev_tail_ms 0 and pad_ms 0 and
\* returns a WAV that holds the current segment's audio only: the re-encoded
\* copy <segment>_ctx.wav when the re-encoding succeeds and its duration is
\* read as expected, the current segment's own path otherwise.
C26_NothingToAddReturnsPlainAudio ==
  (Built /\ NothingToAdd)
    => /\ ctxBuild.ret.info = CtxInfo(FALSE, 0, 0)
       /\ ctxBuild.ret.audio = Audio(0, 0)
       /\ ctxBuild.ret.path = "ctx"
            <=> (ctxBuild.env.r_ctx = "ok" /\ ctxBuild.env.ctx_read = "actual")

\* The previous segment exists, pre-roll and pad are 0, and the re-encoded
\* copy is returned.
C26_Witness ==
  /\ Built
  /\ NothingToAdd
  /\ ctxBuild.env.prev = "exists"
  /\ ctxBuild.ret.path = "ctx"
  /\ "ctx" \in ctxBuild.ret.files

\* C27: when _build_context_wav returns, on every path, none of the temporary
\* files it created (<segment>_temp_prev.wav, <segment>_temp_pad.wav,
\* <segment>_concat_list.txt) exists any more.
C27_NoTemporaryFileLeft ==
  Built => ctxBuild.ret.files \cap TempFiles = {}

\* C28: the report returned by _build_context_wav describes the returned WAV:
\* prev_tail_ms is the previous-segment audio really prepended (0 when none,
\* and no more than the previous segment's duration), pad_ms the silence
\* really appended.
C28_ReportDescribesAudio ==
  Built =>
    /\ ctxBuild.ret.info.prev_tail_ms = ctxBuild.ret.audio.prev_ms
    /\ ctxBuild.ret.info.pad_ms = ctxBuild.ret.audio.pad_ms
    /\ ctxBuild.ret.info.prev_tail_ms <= ctxBuild.env.prev_ms

\* The full build of the call fails: the previous tail cannot be extracted,
\* the concat list cannot be written, the ffmpeg run for the context WAV
\* fails, or the duration read for the context WAV is too short.
FullBuildFailed ==
  LET e == ctxBuild.env
  IN  \/ UsePrev(e) /\ e.prev_ms > 0 /\ e.r_prev # "ok"
      \/ UsePrev(e) /\ e.r_list = "raise"
      \/ e.r_ctx # "ok"
      \/ e.ctx_read = "zero"

\* C29: whatever fails, _build_context_wav raises no exception and returns
\* the path of an existing context WAV or the raw current segment path; a
\* failed full build falls back to the pad-only build and, if that fails or
\* the pad is 0, to the raw segment path with prev_tail_ms = 0 and pad_ms = 0.
C29_FailuresFallBack ==
  Built =>
    LET e == ctxBuild.env
        r == ctxBuild.ret
    IN  /\ ~r.raised
        /\ r.path \in {"ctx", "seg"}
        /\ r.path = "ctx" => "ctx" \in r.files
        /\ ~FullBuildFailed => r.path = "ctx"
        /\ FullBuildFailed =>
             IF e.pad_ms > 0 /\ e.r_fb = "ok"
             THEN r.path = "ctx" /\ r.info = CtxInfo(FALSE, 0, e.pad_ms)
             ELSE r.path = "seg" /\ r.info = CtxInfo(FALSE, 0, 0)

\* Both the full build and the pad-only build met an ffmpeg that could not be
\* run, and the raw segment path came back.
C29_Witness ==
  /\ Built
  /\ ctxBuild.env.r_ctx = "raise"
  /\ ctxBuild.env.pad_ms > 0
  /\ ctxBuild.env.r_fb = "raise"
  /\ ctxBuild.ret.path = "seg"

\* C30: after transcribe() has returned or raised, no context WAV built for
\* the segment remains on disk, and the original segment file is still there.
C30_NoContextWavLeft ==
  TranscribeEnded => "ctx" \notin ctxBuild.files /\ "seg" \in ctxBuild.files

\* ------------------------------------------ _refine_transcript_with_json
\* Most sub-segments in one transcript JSON.
MaxSubSegs == 2
\* Tolerance past the end of the segment, in ms.
RefineSlackMs == 50
\* Length of every sub-segment, in ms.
SubSegMs == 100
\* A float number of seconds is written with this many steps per millisecond.
StepsPerMs == 10

\* int(float(x) * 1000.0) for x >= 0 seconds: the milliseconds, truncated.
SecondsToMs(steps) == steps \div StepsPerMs

\* Where sub-segments start in the audio handed to the transcriber, in ms.
SubStartsMs ==
  {100, DefaultPreRollMs, TxWavDur * 1000 + RefineSlackMs - 1,
   TxWavDur * 1000 + RefineSlackMs,
   DefaultPreRollMs + TxWavDur * 1000 + RefineSlackMs - 1,
   DefaultPreRollMs + TxWavDur * 1000 + RefineSlackMs}

SubTexts == {<<>>, <<" ">>, <<"a">>, <<" ", "b", " ">>}

\* The sub-segments a transcript JSON holds: pywhispercpp's
\* {offsets: {from, to}} in ms, whisper.cpp's {start, end} in seconds (here in
\* steps, each a little short of the next millisecond), and an entry whose
\* times are not numbers.
SubSegments ==
  [enc : {"offsets"}, from : SubStartsMs, text : SubTexts]
  \cup [enc : {"seconds"},
        from : {t * StepsPerMs + (StepsPerMs - 1) : t \in SubStartsMs},
        text : SubTexts]
  \cup {[enc |-> "malformed", from |-> 0, text |-> <<"a">>]}

\* t0 and t1 as the loop body reads them.
SubT0(sub) == IF sub.enc = "offsets" THEN sub.from ELSE SecondsToMs(sub.from)
SubT1(sub) ==
  IF sub.enc = "offsets" THEN sub.from + SubSegMs
  ELSE SecondsToMs(sub.from + SubSegMs * StepsPerMs)

\* The drop test with the bound itself among the retained starts.
PastWindow_Inclusive(local_t0, dur_s) ==
  dur_s > 0 /\ local_t0 > SecondsToMs(dur_s) + RefineSlackMs

\* `dur_s > 0 and local_t0 >= int(dur_s * 1000) + 50`
PastWindow(local_t0, dur_s) ==
  dur_s > 0 /\ local_t0 >= SecondsToMs(dur_s) + RefineSlackMs

\* One pass of the loop body: does it append the sub-segment's text?
\* local_t1 is computed and not used.
Retains(sub, dur_s, prev_tail_ms) ==
  /\ sub.enc # "malformed"
  /\ LET local_t0 == Max(0, SubT0(sub) - prev_tail_ms)
         local_t1 == Max(0, SubT1(sub) - prev_tail_ms)
     IN  ~PastWindow(local_t0, dur_s)
  /\ Strip(sub.text) # <<>>

RECURSIVE keep_txt(_, _, _)
keep_txt(segs, dur_s, prev_tail_ms) ==
  IF segs = <<>> THEN <<>>
  ELSE (IF Retains(Head(segs), dur_s, prev_tail_ms)
        THEN <<Strip(Head(segs).text)>> ELSE <<>>)
       \o keep_txt(Tail(segs), dur_s, prev_tail_ms)

refine_transcript_with_json(a) ==
  IF ~a.readable THEN a.txt_fallback
  ELSE LET keep == keep_txt(a.segs, a.dur_s, a.prev_tail_ms)
       IN  IF keep = <<>> THEN a.txt_fallback ELSE Join(<<"\n">>, keep)

\* The calls transcribe makes: the JSON readable or not, the duration of the
\* segment read or not (0), the tail of the previous segment prepended or not.
RefineArgs ==
  [readable : BOOLEAN,
   segs : UNION {[1..n -> SubSegments] : n \in 0..MaxSubSegs},
   txt_fallback : {<<"r", "a", "w">>},
   dur_s : {0, TxWavDur * 1000 * StepsPerMs},
   prev_tail_ms : {0, DefaultPreRollMs}]

\* The transcription worker inside transcribe(segment 0), the backend done.
InTranscribe ==
  /\ automation_enabled = TRUE
  /\ segment_duration = TxWavDur
  /\ recording = TRUE
  /\ ffmpeg_process = "alive"
  /\ mainPc = "recording"
  /\ current_session_dir = 1
  /\ metadataFile = <<"start">>
  /\ staleMon = <<>>
  /\ segFiles = <<TxWavDur, TxWavDur, 0>>
  /\ sidecars = {0, 1}
  /\ transcriptFiles = <<>>
  /\ batchFiles = <<>>
  /\ segSummaryFiles = {}
  /\ rollingFile = None
  /\ finalSummaryFile = None
  /\ finalTranscriptFile = None
  /\ monPc = "poll"
  /\ monFiles = <<0, 1>>
  /\ monCur = 1
  /\ seen = {0, 1}
  /\ summary_batch_size = 1
  /\ whisper_backend = "cli"
  /\ pyw_model = FALSE
  /\ running = TRUE
  /\ tx_busy = TRUE
  /\ sum_busy = FALSE
  /\ transcribe_queue = <<1>>
  /\ summarize_queue = <<>>
  /\ rolling_summary_text = None
  /\ batch_summaries = <<>>
  /\ processed_tx = 0
  /\ txPc = "transcribe"
  /\ txJob = 0
  /\ sumPc = "poll"
  /\ batch = <<>>
  /\ batch_metadata = <<>>
  /\ batch_count = 0
  /\ enqLog = <<0, 1>>
  /\ gatePassed = {0, 1}
  /\ gateFailed = {}
  /\ txDequeued = <<0>>
  /\ txReturned = <<>>
  /\ txCalls = <<>>
  /\ sumEnqLog = <<>>
  /\ sumLog = <<>>
  /\ pendingAtStop = {}
  /\ synthInput = {}

InitRefine ==
  /\ InTranscribe
  /\ stableWait = NoWait
  /\ ctxBuild = NoBuild
  /\ metrics = NoMetrics
  /\ threads = NoThreads
  /\ \E a \in RefineArgs :
       refineCall = [pc |-> "called", args |-> a, ret |-> NoRet]

RefineTranscript ==
  /\ refineCall.pc = "called"
  /\ refineCall' =
       [refineCall EXCEPT !.pc = "done",
                          !.ret = refine_transcript_with_json(refineCall.args)]
  /\ UNCHANGED <<recorderVars, sessVars, stableWait, ctxBuild, metrics, threads,
                 diskVars, monVars, pipeVars, txVars, sumVars, histVars>>

NextRefine == RefineTranscript

SpecRefine == InitRefine /\ [][NextRefine]_vars

\* The call has returned after reading the JSON.
Refined == refineCall.pc = "done" /\ refineCall.args.readable

\* The sub-segments whose text the call appended to its result.
RetainedSubs ==
  LET a == refineCall.args
  IN  {i \in 1..Len(a.segs) : Retains(a.segs[i], a.dur_s, a.prev_tail_ms)}

\* C31: for a segment transcribed with pre-roll P ms, every sub-segment
\* whose text is retained in the refined transcript has
\* 0 <= (original start - P) <= cur_duration_ms + 50, in both encodings.
C31_RetainedStartsInWindow ==
  Refined =>
    \A i \in RetainedSubs :
      LET a == refineCall.args
          adjusted == SubT0(a.segs[i]) - a.prev_tail_ms
      IN  /\ adjusted >= 0
          /\ adjusted <= SecondsToMs(a.dur_s) + RefineSlackMs

\* The start of a sub-segment and the bound of the window, both in steps and
\* without rounding.
StartSteps(sub) ==
  IF sub.enc = "offsets" THEN sub.from * StepsPerMs ELSE sub.from

\* The sub-segments the result is made of: text not empty once trimmed, and
\* max(0, start - prev_tail_ms) < cur_duration_ms + 50 when the duration is
\* known.
InResult(sub) ==
  LET a == refineCall.args
  IN  /\ sub.enc # "malformed"
      /\ Strip(sub.text) # <<>>
      /\ \/ a.dur_s = 0
         \/ Max(0, StartSteps(sub) - a.prev_tail_ms * StepsPerMs)
              < a.dur_s + RefineSlackMs * StepsPerMs

TrimmedTexts(subs) == [i \in 1..Len(subs) |-> Strip(subs[i].text)]

InitMetrics ==
  /\ InTranscribe
  /\ stableWait = NoWait
  /\ ctxBuild = NoBuild
  /\ refineCall = NoRefine
  /\ metrics = [enabled |-> TRUE, log |-> <<>>]
  /\ threads = NoThreads

NextMetrics ==
  \/ TxGet
  \/ TxSetBusy
  \/ TxTranscribeSpeech
  \/ SumGet
  \/ SumSendRequest
  \/ SumProcessOk

SpecMetrics == InitMetrics /\ [][NextMetrics]_vars

\* The metrics lines of the given stages whose write failed.
FailedLines(stages) ==
  {i \in 1..Len(metrics.log) :
     metrics.log[i].stage \in stages /\ ~metrics.log[i].written}

\* C32: a failure to write a metrics line never prevents the hand-off of that
\* job to the summarization queue, never terminates a worker thread, and never
\* changes the transcript or the rolling summary.
C32_MetricsFailureIsHarmless ==
  /\ \A i \in FailedLines({"context_build", "transcription"}) :
       LET seg == metrics.log[i].index
       IN  /\ \E j \in 1..Len(sumEnqLog) :
                sumEnqLog[j] = [seg |-> seg, transcript |-> Speech(seg)]
           /\ seg \in Keys(transcriptFiles)
           /\ transcriptFiles[seg] = Speech(seg)
  /\ \A i \in FailedLines({"summarization_batch"}) :
       LET b == metrics.log[i].index
       IN  /\ Len(sumLog) > b
           /\ sumLog[b + 1].after = <<"R">>
           /\ rolling_summary_text = <<"R">>
           /\ Len(batch_summaries) > b
  /\ FailedLines({"context_build", "transcription", "summarization_batch"}) # {}
       => txPc # "off" /\ sumPc \notin {"dead", "off", "done"}

\* Both jobs handed off and summarized although every metrics line of job 1
\* and of its batch failed to be written.
C32_Witness ==
  /\ \E i \in FailedLines({"context_build"}) : metrics.log[i].index = 1
  /\ \E i \in FailedLines({"transcription"}) : metrics.log[i].index = 1
  /\ \E i \in FailedLines({"summarization_batch"}) : metrics.log[i].index = 1
  /\ Len(sumLog) = 2
  /\ processed_tx = 2

\* ------------------------------------------------- the retry of the server
\* The calls the server answered with a transcript.
ServerAnswered(c) ==
  c.configured = "server" /\ c.env.srv \in {"segments", "text"}

\* What the retry request of call c brought back; nothing without a retry
\* or when the retry failed.
RetryResult(c) ==
  IF c.res.requests = 2 /\ c.env.retry.ok THEN Strip(c.env.retry.text) ELSE <<>>

C35_NoEnqueueAfterStop ==
  [][mainPc = "stopped" => enqLog' = enqLog]_vars

\* ------------------------------------- start() and stop() called repeatedly
\* Most start() calls that create threads.
MaxStarts == 2

InitThreads == InitConfigured({TRUE}, {SegDur}, {MaxBatch}, {"cli"})

ThreadsOnly ==
  UNCHANGED <<recorderVars, sessVars, stableWait, ctxBuild, refineCall, metrics,
              diskVars, monVars, txVars, sumVars, histVars>>

PipelineKeeps ==
  UNCHANGED <<summary_batch_size, whisper_backend, pyw_model, sum_busy,
              rolling_summary_text, batch_summaries>>

\* The worker threads that have not returned.
LiveWorkers(ts) == {i \in 1..Len(ts) : ts[i].pc # "done"}

\* start(): nothing when automation is off or running is set; else running is
\* set and a transcription and a summarization thread are created and started.
PipelineStart ==
  /\ threads.host = "idle"
  /\ Len(threads.tx) < MaxStarts
  /\ IF ~automation_enabled \/ running
     THEN UNCHANGED <<running, threads>>
     ELSE /\ running' = TRUE
          /\ threads' =
               [threads EXCEPT !.tx = Append(@, [pc |-> "get", job |-> NoPath]),
                               !.sum = Append(@, [pc |-> "poll", job |-> NoPath])]
  /\ UNCHANGED <<tx_busy, transcribe_queue, summarize_queue, processed_tx>>
  /\ PipelineKeeps
  /\ ThreadsOnly

\* stop(): running is cleared; then the joins, of self.tx_thread and
\* self.sum_thread, the threads of the latest start().
PipelineStopCall ==
  /\ threads.host = "idle"
  /\ running' = FALSE
  /\ threads' = [threads EXCEPT !.host = IF threads.tx = <<>> THEN "idle"
                                         ELSE "join_tx"]
  /\ UNCHANGED <<tx_busy, transcribe_queue, summarize_queue, processed_tx>>
  /\ PipelineKeeps
  /\ ThreadsOnly

\* join(timeout=5) returns: the thread has ended, or it is inside a job that
\* takes longer than the timeout.  A thread waiting in get(timeout=1) sees
\* running cleared within a second and is waited for.
JoinReturns(ts) == ts[Len(ts)].pc \in {"done", "busy"}

PipelineStopJoin ==
  /\ \/ /\ threads.host = "join_tx"
        /\ JoinReturns(threads.tx)
        /\ threads' = [threads EXCEPT !.host = "join_sum"]
     \/ /\ threads.host = "join_sum"
        /\ JoinReturns(threads.sum)
        /\ threads' = [threads EXCEPT !.host = "idle"]
  /\ UNCHANGED <<running, tx_busy, transcribe_queue, summarize_queue, processed_tx>>
  /\ PipelineKeeps
  /\ ThreadsOnly

\* enqueue_transcription by the host.
HostEnqueue ==
  /\ processed_tx + Len(transcribe_queue)
       + Cardinality({i \in 1..Len(threads.tx) : threads.tx[i].pc = "busy"})
       < MaxSegs
  /\ transcribe_queue' = Append(transcribe_queue, processed_tx + Len(transcribe_queue))
  /\ UNCHANGED <<running, tx_busy, summarize_queue, processed_tx, threads>>
  /\ PipelineKeeps
  /\ ThreadsOnly

\* _tx_worker of thread i: `while self.running`, get, _tx_busy, transcribe,
\* hand-off; the thread returns when it reads running cleared.
TxThreadStep(i) ==
  LET t == threads.tx[i]
  IN  /\ \/ /\ t.pc = "get" /\ running /\ transcribe_queue # <<>>
            /\ threads' = [threads EXCEPT !.tx[i] =
                             [pc |-> "busy", job |-> Head(transcribe_queue)]]
            /\ transcribe_queue' = Tail(transcribe_queue)
            /\ tx_busy' = TRUE
            /\ UNCHANGED <<summarize_queue, processed_tx>>
         \/ /\ t.pc = "busy"
            /\ threads' = [threads EXCEPT !.tx[i] = [pc |-> "get", job |-> NoPath]]
            /\ summarize_queue' =
                 Append(summarize_queue, [seg |-> t.job, transcript |-> Speech(t.job)])
            /\ processed_tx' = processed_tx + 1
            /\ tx_busy' = FALSE
            /\ UNCHANGED transcribe_queue
         \/ /\ t.pc = "get" /\ ~running
            /\ threads' = [threads EXCEPT !.tx[i].pc = "done"]
            /\ UNCHANGED <<tx_busy, transcribe_queue, summarize_queue, processed_tx>>
      /\ UNCHANGED running
      /\ PipelineKeeps
      /\ ThreadsOnly

\* _sum_worker of thread i: `while self.running or not
\* self.summarize_queue.empty()`, get, the batch; the thread returns when it
\* reads running cleared and the queue empty.
SumThreadStep(i) ==
  LET t == threads.sum[i]
  IN  /\ \/ /\ t.pc = "poll" /\ summarize_queue # <<>>
            /\ threads' = [threads EXCEPT !.sum[i] =
                             [pc |-> "busy", job |-> Head(summarize_queue).seg]]
            /\ summarize_queue' = Tail(summarize_queue)
         \/ /\ t.pc = "busy"
            /\ threads' = [threads EXCEPT !.sum[i] = [pc |-> "poll", job |-> NoPath]]
            /\ UNCHANGED summarize_queue
         \/ /\ t.pc = "poll" /\ ~running /\ summarize_queue = <<>>
            /\ threads' = [threads EXCEPT !.sum[i].pc = "done"]
            /\ UNCHANGED summarize_queue
      /\ UNCHANGED <<running, tx_busy, transcribe_queue, processed_tx>>
      /\ PipelineKeeps
      /\ ThreadsOnly

NextThreads ==
  \/ PipelineStart
  \/ PipelineStopCall
  \/ PipelineStopJoin
  \/ HostEnqueue
  \/ \E i \in 1..Len(threads.tx) : TxThreadStep(i)
  \/ \E i \in 1..Len(threads.sum) : SumThreadStep(i)

SpecThreads == InitThreads /\ [][NextThreads]_vars

\* C36: over any sequence of start() and stop() calls, at most one
\* transcription worker and at most one summarization worker are consuming
\* from the queues at any time, even when stop()'s join times out on a busy
\* worker and start() is called again.
C36_OneWorkerPerStage ==
  /\ Cardinality(LiveWorkers(threads.tx)) <= 1
  /\ Cardinality(LiveWorkers(threads.sum)) <= 1

\* --------------------------------------- a second session with automation
\* A recorder with automation used for several sessions: transcriptions and
\* summaries succeed.  The recorder never calls ProcessingPipeline.stop, so
\* the workers started in the first session serve the later ones.
InitRestart == InitWith({TRUE}, {ShortSegDur}, {1})

DrainFinalSynthOk == DrainFinalSynthWith({[ok |-> TRUE, resp |-> RespBoth]})

NextRestart ==
  \/ StartRecording
  \/ StartRecordingAgain
  \/ CaptureWrite
  \/ CaptureRotate
  \/ MonitorPoll
  \/ MonitorIter
  \/ MonitorGatePass
  \/ MonitorGateTimeout
  \/ MonitorEnqueue
  \/ \E s \in 1..MaxSessions : StaleMonitorPoll(s)
  \/ TxGet
  \/ TxSetBusy
  \/ TxTranscribeSpeech
  \/ SumGet
  \/ SumSendRequest
  \/ SumProcessOk
  \/ StopRecording
  \/ DrainCheckIdle
  \/ DrainCheckTxQueue
  \/ DrainCheckSumQueue
  \/ DrainFinalTranscript
  \/ DrainFinalSynthCheck
  \/ DrainFinalSynthOk
  \/ StopFinalCopy

SpecRestart == InitRestart /\ [][NextRestart]_vars

\* A start_recording call makes a new session directory the current one.
SessionBegins ==
  current_session_dir' # current_session_dir /\ current_session_dir' # 0

\* C37: a second session recorded in the same process begins with an empty
\* rolling summary and an empty batch-summary buffer, so that nothing
\* summarized in the first session appears in the prompts or in the final
\* synthesis of the second.
C37_SessionBeginsWithoutSummaries ==
  [][SessionBegins => rolling_summary_text' = None /\ batch_summaries' = <<>>]_vars

\* ------------------------------------------------ the final partial batch
\* drain() has returned to stop_recording.
DrainReturned == mainPc \in {"final_copy", "stopped"}

\* The segments whose transcript the summarization worker took from its
\* queue, and those of the batches that went through _process_summary_batch.
TakenForSummary == QueuedSegs(sumEnqLog) \ QueuedSegs(summarize_queue)
InSummarizedBatch ==
  UNION {{sumLog[k].segs[j] : j \in 1..Len(sumLog[k].segs)} : k \in 1..Len(sumLog)}

\* C38: with summary_batch_size > 1, when drain() returns every transcript
\* the summarization worker took from its queue has been included in a batch
\* that was summarized: a final partial batch is flushed before the final
\* synthesis.
C38_PartialBatchFlushedByDrain ==
  (summary_batch_size > 1 /\ DrainReturned)
    => TakenForSummary \subseteq InSummarizedBatch

\* ------------------------------------------- a signal during stop_recording
\* stop_recording is past `self.ffmpeg_process = None` and has not returned.
InStopRecording ==
  mainPc \in {"drain_idle", "drain_tx", "drain_sum", "final_transcript",
              "final_synth", "synth_wait", "final_copy"}

\* signal_handler run by SIGINT or SIGTERM while the main thread is in
\* stop_recording: the nested stop_recording() returns at `if not
\* self.ffmpeg_process`, and sys.exit(0) raises SystemExit through the
\* interrupted frames; the daemon threads end with the interpreter.
signal_handler ==
  /\ InStopRecording
  /\ ffmpeg_process = "none"
  /\ MainGoto("exited")

InitSignal == InitWith({TRUE}, {SegDur}, {1})

NextSignal ==
  \/ StartRecording
  \/ CaptureWrite
  \/ CaptureRotate
  \/ MonitorPoll
  \/ MonitorIter
  \/ MonitorGatePass
  \/ MonitorGateTimeout
  \/ MonitorEnqueue
  \/ TxGet
  \/ TxSetBusy
  \/ TxTranscribe
  \/ SumGet
  \/ SumSendRequest
  \/ SumProcess
  \/ StopRecording
  \/ DrainCheckIdle
  \/ DrainCheckTxQueue
  \/ DrainCheckSumQueue
  \/ DrainFinalTranscript
  \/ DrainFinalSynthCheck
  \/ DrainFinalSynth
  \/ StopFinalCopy
  \/ signal_handler
  \/ Exit

SpecSignal == InitSignal /\ [][NextSignal]_vars

\* C39: a second shutdown signal delivered while stop_recording is blocked in
\* drain does not make the process exit before drain and the final
\* transcript/summary aggregation have completed.
C39_ExitOnlyAfterStopReturned ==
  [][mainPc' = "exited" => mainPc \in {"stopped", "exited"}]_vars

\* ------------------------------------- generate_final_transcript, repeated
\* generate_final_transcript() called once more by the host on the session
\* directory of the session that has ended (drain() calls it on every call).
\* The length guard stops after one repetition.
GenerateFinalTranscriptAgain ==
  /\ mainPc = "stopped"
  /\ finalTranscriptFile # None
  /\ Len(finalTranscriptFile) <= 3 * Cardinality(Keys(transcriptFiles))
  /\ finalTranscriptFile' = generate_final_transcript
  /\ UNCHANGED <<segFiles, sidecars, transcriptFiles, batchFiles,
                 segSummaryFiles, rollingFile, finalSummaryFile>>
  /\ UNCHANGED <<recorderVars, sessVars, callVars, monVars, pipeVars, txVars,
                 sumVars, histVars>>

NextFinalAgain ==
  \/ DrainFinalTranscript
  \/ DrainFinalSynthCheck
  \/ StopFinalCopy
  \/ GenerateFinalTranscriptAgain

SpecFinalAgain == InitFinal /\ [][NextFinalAgain]_vars

\* C40: generate_final_transcript is idempotent: called again on the same
\* session directory with no new per-segment transcript in between, it
\* leaves final_transcript.txt as the first call wrote it; the final files are
\* never themselves inputs of the aggregation.
C40_FinalTranscriptIdempotent ==
  [][(finalTranscriptFile # None /\ transcriptFiles' = transcriptFiles)
       => finalTranscriptFile' = finalTranscriptFile]_vars

====
